---- MODULE Spec2Model ----
(***************************************************************************)
(* Client-mediation layer of the SkuVault MCP server: the rate limiter     *)
(* (src/utils/rate_limiter.py), the response cache (src/utils/cache.py)    *)
(* and SkuVaultClient.call_endpoint (src/api_client.py), which is the raw  *)
(* network call wrapped by with_cache and then by with_rate_limit.         *)
(*                                                                         *)
(* Time is in seconds.  Coroutines run on one cooperative event loop, so   *)
(* one action is the code between two suspension points (await of a sleep  *)
(* or of the network).                                                     *)
(***************************************************************************)
EXTENDS Integers, Sequences, FiniteSets, TLC

(***************************************************************************)
(* Strings.  An endpoint name, a category key or an invalidation pattern   *)
(* is a string; CharTable gives its characters, so that lower() and the    *)
(* substring test `in` are computed character by character.                *)
(***************************************************************************)
CharTable ==
    ("getproduct" :> <<"g", "e", "t", "p", "r", "o", "d", "u", "c", "t">>)
    @@ ("getproducts" :> <<"g", "e", "t", "p", "r", "o", "d", "u", "c", "t", "s">>)
    @@ ("getwarehouses" :> <<"g", "e", "t", "w", "a", "r", "e", "h", "o", "u", "s", "e", "s">>)
    @@ ("getinventorybylocation" :> <<"g", "e", "t", "i", "n", "v", "e", "n", "t", "o", "r", "y", "b", "y", "l", "o", "c", "a", "t", "i", "o", "n">>)
    @@ ("updateproduct" :> <<"u", "p", "d", "a", "t", "e", "p", "r", "o", "d", "u", "c", "t">>)
    @@ ("setitemquantity" :> <<"s", "e", "t", "i", "t", "e", "m", "q", "u", "a", "n", "t", "i", "t", "y">>)
    @@ ("getlocations" :> <<"g", "e", "t", "l", "o", "c", "a", "t", "i", "o", "n", "s">>)
    @@ ("getitemquantities" :> <<"g", "e", "t", "i", "t", "e", "m", "q", "u", "a", "n", "t", "i", "t", "i", "e", "s">>)
    @@ ("UpdateProduct" :> <<"U", "p", "d", "a", "t", "e", "P", "r", "o", "d", "u", "c", "t">>)
    @@ ("GetProduct" :> <<"G", "e", "t", "P", "r", "o", "d", "u", "c", "t">>)
    @@ ("bogus" :> <<"b", "o", "g", "u", "s">>)
    @@ ("product" :> <<"p", "r", "o", "d", "u", "c", "t">>)
    @@ ("products" :> <<"p", "r", "o", "d", "u", "c", "t", "s">>)
    @@ ("warehouse" :> <<"w", "a", "r", "e", "h", "o", "u", "s", "e">>)
    @@ ("warehouses" :> <<"w", "a", "r", "e", "h", "o", "u", "s", "e", "s">>)
    @@ ("inventory" :> <<"i", "n", "v", "e", "n", "t", "o", "r", "y">>)
    @@ ("location" :> <<"l", "o", "c", "a", "t", "i", "o", "n">>)
    @@ ("default" :> <<"d", "e", "f", "a", "u", "l", "t">>)
    @@ ("createproduct" :> <<"c", "r", "e", "a", "t", "e", "p", "r", "o", "d", "u", "c", "t">>)
    @@ ("additem" :> <<"a", "d", "d", "i", "t", "e", "m">>)
    @@ ("removeitem" :> <<"r", "e", "m", "o", "v", "e", "i", "t", "e", "m">>)
    @@ ("DEF" :> <<"D", "E", "F">>)
    @@ ("bb" :> <<"b", "b">>)
    @@ ("PRODUCT" :> <<"P", "R", "O", "D", "U", "C", "T">>)
    @@ ("A" :> <<"A">>)
    @@ ("A*" :> <<"A", "*">>)
    @@ ("" :> <<>>)

UpperToLower ==
    ("A" :> "a")
    @@ ("B" :> "b")
    @@ ("C" :> "c")
    @@ ("D" :> "d")
    @@ ("E" :> "e")
    @@ ("F" :> "f")
    @@ ("G" :> "g")
    @@ ("H" :> "h")
    @@ ("I" :> "i")
    @@ ("J" :> "j")
    @@ ("K" :> "k")
    @@ ("L" :> "l")
    @@ ("M" :> "m")
    @@ ("N" :> "n")
    @@ ("O" :> "o")
    @@ ("P" :> "p")
    @@ ("Q" :> "q")
    @@ ("R" :> "r")
    @@ ("S" :> "s")
    @@ ("T" :> "t")
    @@ ("U" :> "u")
    @@ ("V" :> "v")
    @@ ("W" :> "w")
    @@ ("X" :> "x")
    @@ ("Y" :> "y")
    @@ ("Z" :> "z")

MD5Table ==
    { [endpoint |-> "getproducts", param_str |-> << <<"PageNumber", "0">>, <<"PageSize", "100">> >>,
       hex |-> <<"b", "a", "9", "8", "2", "e", "a", "c", "d", "8", "c", "6", "4", "6", "1", "b", "3", "1", "c", "6", "6", "4", "e", "1", "6", "3", "3", "8", "a", "2", "0", "4">>],
      [endpoint |-> "getproduct", param_str |-> << >>,
       hex |-> <<"5", "9", "2", "4", "6", "7", "1", "e", "0", "f", "2", "3", "4", "e", "1", "c", "8", "1", "5", "b", "9", "a", "f", "6", "2", "e", "3", "6", "8", "d", "b", "f">>],
      [endpoint |-> "getproduct", param_str |-> << <<"ProductSKU", "A">> >>,
       hex |-> <<"0", "a", "8", "4", "f", "d", "9", "2", "f", "f", "2", "0", "e", "2", "b", "9", "a", "d", "f", "5", "0", "2", "e", "5", "9", "0", "7", "1", "8", "f", "0", "9">>],
      [endpoint |-> "getproduct", param_str |-> << <<"ProductSKU", "B">> >>,
       hex |-> <<"3", "f", "c", "b", "5", "d", "4", "f", "8", "a", "e", "e", "d", "3", "7", "8", "7", "e", "1", "a", "3", "8", "0", "6", "2", "9", "1", "b", "b", "f", "0", "6">>],
      [endpoint |-> "getproducts", param_str |-> << >>,
       hex |-> <<"6", "7", "2", "4", "f", "5", "3", "b", "5", "d", "8", "7", "4", "f", "b", "f", "b", "c", "5", "7", "1", "7", "7", "4", "1", "0", "a", "8", "6", "1", "a", "6">>],
      [endpoint |-> "getproducts", param_str |-> << <<"ProductSKU", "A">> >>,
       hex |-> <<"b", "f", "0", "9", "f", "9", "e", "2", "3", "0", "b", "5", "3", "7", "3", "b", "b", "a", "4", "4", "f", "1", "2", "1", "3", "f", "6", "2", "9", "c", "6", "c">>],
      [endpoint |-> "getproducts", param_str |-> << <<"ProductSKU", "B">> >>,
       hex |-> <<"a", "0", "8", "5", "8", "f", "3", "d", "7", "0", "b", "4", "6", "b", "1", "b", "3", "d", "4", "f", "7", "7", "0", "9", "2", "b", "d", "6", "c", "a", "5", "8">>],
      [endpoint |-> "getwarehouses", param_str |-> << >>,
       hex |-> <<"4", "4", "d", "6", "5", "a", "3", "e", "5", "b", "d", "a", "b", "c", "e", "9", "c", "d", "b", "6", "f", "0", "4", "6", "8", "a", "e", "1", "5", "e", "e", "a">>],
      [endpoint |-> "getwarehouses", param_str |-> << <<"ProductSKU", "A">> >>,
       hex |-> <<"2", "8", "5", "3", "4", "a", "5", "b", "4", "0", "7", "6", "9", "c", "c", "5", "8", "1", "8", "c", "a", "e", "1", "0", "7", "e", "e", "6", "8", "1", "7", "0">>],
      [endpoint |-> "getwarehouses", param_str |-> << <<"ProductSKU", "B">> >>,
       hex |-> <<"9", "8", "2", "a", "3", "2", "e", "1", "4", "f", "8", "b", "2", "e", "8", "1", "b", "0", "3", "e", "1", "b", "0", "f", "a", "3", "8", "f", "1", "6", "4", "5">>],
      [endpoint |-> "getinventorybylocation", param_str |-> << >>,
       hex |-> <<"7", "8", "c", "0", "4", "6", "1", "7", "3", "6", "1", "1", "7", "a", "f", "1", "2", "1", "7", "4", "7", "f", "4", "4", "d", "e", "a", "6", "f", "e", "6", "1">>],
      [endpoint |-> "getinventorybylocation", param_str |-> << <<"ProductSKU", "A">> >>,
       hex |-> <<"d", "e", "f", "0", "b", "b", "c", "1", "1", "b", "7", "8", "6", "c", "5", "8", "9", "7", "9", "7", "f", "c", "e", "8", "b", "3", "c", "5", "9", "8", "a", "c">>],
      [endpoint |-> "getinventorybylocation", param_str |-> << <<"ProductSKU", "B">> >>,
       hex |-> <<"e", "e", "4", "e", "7", "b", "5", "8", "e", "5", "3", "c", "f", "1", "b", "2", "c", "9", "1", "c", "4", "d", "c", "9", "2", "e", "a", "a", "f", "9", "e", "8">>],
      [endpoint |-> "updateproduct", param_str |-> << >>,
       hex |-> <<"0", "b", "b", "5", "7", "c", "f", "4", "4", "d", "5", "e", "3", "5", "1", "1", "1", "d", "5", "0", "0", "1", "9", "a", "a", "9", "a", "9", "3", "9", "3", "4">>],
      [endpoint |-> "updateproduct", param_str |-> << <<"ProductSKU", "A">> >>,
       hex |-> <<"e", "c", "a", "1", "4", "7", "a", "c", "c", "7", "9", "5", "f", "2", "3", "3", "7", "2", "2", "1", "f", "e", "5", "9", "9", "e", "e", "d", "7", "d", "0", "a">>],
      [endpoint |-> "updateproduct", param_str |-> << <<"ProductSKU", "B">> >>,
       hex |-> <<"e", "f", "6", "4", "5", "d", "8", "8", "3", "c", "7", "9", "3", "1", "2", "b", "7", "5", "0", "7", "b", "0", "f", "8", "d", "7", "e", "d", "4", "d", "2", "6">>],
      [endpoint |-> "setitemquantity", param_str |-> << >>,
       hex |-> <<"a", "a", "4", "a", "3", "f", "3", "2", "3", "9", "d", "9", "f", "c", "c", "c", "8", "a", "a", "c", "e", "a", "d", "6", "1", "a", "a", "e", "7", "7", "e", "3">>],
      [endpoint |-> "setitemquantity", param_str |-> << <<"ProductSKU", "A">> >>,
       hex |-> <<"e", "4", "a", "a", "1", "3", "a", "e", "2", "c", "0", "e", "a", "0", "5", "e", "8", "4", "f", "2", "7", "7", "3", "3", "3", "f", "c", "d", "a", "0", "6", "a">>],
      [endpoint |-> "setitemquantity", param_str |-> << <<"ProductSKU", "B">> >>,
       hex |-> <<"4", "9", "5", "e", "b", "5", "8", "6", "c", "4", "2", "7", "9", "5", "4", "3", "f", "4", "2", "3", "0", "4", "d", "6", "f", "2", "2", "2", "f", "9", "1", "b">>],
      [endpoint |-> "getlocations", param_str |-> << >>,
       hex |-> <<"2", "0", "c", "8", "9", "b", "b", "2", "5", "3", "4", "e", "9", "e", "6", "0", "5", "b", "9", "f", "c", "a", "d", "e", "1", "d", "0", "4", "a", "0", "c", "9">>],
      [endpoint |-> "getlocations", param_str |-> << <<"ProductSKU", "A">> >>,
       hex |-> <<"e", "3", "8", "8", "2", "c", "7", "8", "4", "8", "2", "8", "f", "c", "e", "d", "e", "9", "7", "6", "4", "a", "d", "4", "8", "f", "1", "e", "b", "3", "4", "8">>],
      [endpoint |-> "getlocations", param_str |-> << <<"ProductSKU", "B">> >>,
       hex |-> <<"7", "2", "9", "0", "9", "4", "6", "b", "7", "6", "5", "a", "5", "6", "f", "5", "8", "1", "7", "4", "c", "b", "e", "3", "b", "0", "6", "b", "8", "3", "8", "2">>],
      [endpoint |-> "getitemquantities", param_str |-> << >>,
       hex |-> <<"3", "4", "a", "c", "e", "9", "5", "0", "f", "e", "2", "5", "7", "3", "9", "3", "e", "6", "2", "6", "a", "c", "d", "6", "8", "9", "5", "c", "7", "e", "0", "1">>],
      [endpoint |-> "getitemquantities", param_str |-> << <<"ProductSKU", "A">> >>,
       hex |-> <<"1", "1", "1", "5", "7", "c", "3", "6", "1", "9", "3", "2", "b", "a", "3", "7", "5", "d", "7", "5", "a", "d", "2", "1", "5", "9", "0", "1", "7", "3", "9", "4">>],
      [endpoint |-> "getitemquantities", param_str |-> << <<"ProductSKU", "B">> >>,
       hex |-> <<"1", "0", "e", "3", "e", "9", "d", "f", "7", "3", "8", "c", "7", "f", "5", "4", "1", "b", "5", "6", "b", "4", "d", "6", "1", "c", "6", "d", "1", "d", "b", "5">>],
      [endpoint |-> "GetProduct", param_str |-> << >>,
       hex |-> <<"0", "b", "6", "8", "d", "6", "d", "e", "0", "c", "8", "3", "e", "2", "1", "0", "b", "3", "7", "e", "8", "1", "c", "1", "d", "3", "6", "e", "c", "3", "8", "3">>],
      [endpoint |-> "GetProduct", param_str |-> << <<"ProductSKU", "A">> >>,
       hex |-> <<"3", "1", "c", "f", "9", "9", "8", "7", "c", "3", "a", "1", "a", "6", "e", "b", "d", "3", "f", "e", "1", "c", "a", "a", "1", "b", "e", "6", "6", "4", "f", "1">>],
      [endpoint |-> "GetProduct", param_str |-> << <<"ProductSKU", "B">> >>,
       hex |-> <<"0", "6", "f", "9", "3", "e", "5", "7", "b", "4", "a", "e", "9", "a", "0", "6", "7", "9", "5", "5", "3", "c", "2", "7", "0", "b", "8", "8", "1", "5", "6", "d">>],
      [endpoint |-> "bogus", param_str |-> << >>,
       hex |-> <<"d", "5", "4", "2", "3", "f", "2", "b", "4", "e", "a", "6", "8", "7", "b", "f", "e", "4", "c", "0", "0", "1", "7", "a", "8", "8", "9", "e", "b", "7", "d", "6">>],
      [endpoint |-> "bogus", param_str |-> << <<"ProductSKU", "A">> >>,
       hex |-> <<"6", "d", "f", "7", "b", "b", "7", "c", "d", "5", "0", "0", "6", "b", "e", "e", "f", "3", "c", "a", "e", "f", "3", "b", "a", "1", "7", "8", "e", "e", "a", "7">>],
      [endpoint |-> "bogus", param_str |-> << <<"ProductSKU", "B">> >>,
       hex |-> <<"8", "6", "c", "5", "7", "7", "1", "a", "4", "8", "d", "0", "4", "2", "7", "4", "2", "6", "7", "5", "3", "3", "f", "e", "8", "1", "e", "4", "5", "0", "2", "c">>],
      [endpoint |-> "getproduct", param_str |-> << <<"ProductSKU", "A">>, <<"PageNumber", "1">> >>,
       hex |-> <<"7", "c", "e", "6", "6", "d", "5", "b", "1", "1", "f", "7", "1", "c", "0", "a", "b", "3", "6", "c", "9", "7", "9", "d", "b", "4", "f", "d", "9", "9", "d", "9">>],
      [endpoint |-> "getproduct", param_str |-> << <<"PageNumber", "1">>, <<"ProductSKU", "A">> >>,
       hex |-> <<"f", "0", "8", "c", "1", "2", "f", "8", "1", "7", "c", "f", "c", "4", "9", "f", "4", "9", "1", "f", "d", "1", "d", "1", "3", "d", "4", "4", "5", "c", "e", "6">>],
      [endpoint |-> "GetProduct", param_str |-> << <<"ProductSKU", "A">>, <<"PageNumber", "1">> >>,
       hex |-> <<"0", "2", "1", "6", "5", "4", "1", "9", "e", "5", "6", "7", "a", "d", "5", "c", "f", "9", "2", "a", "7", "9", "5", "3", "3", "5", "c", "8", "e", "6", "8", "6">>],
      [endpoint |-> "GetProduct", param_str |-> << <<"PageNumber", "1">>, <<"ProductSKU", "A">> >>,
       hex |-> <<"b", "1", "9", "f", "5", "b", "1", "8", "3", "6", "9", "d", "e", "6", "0", "e", "9", "4", "2", "4", "5", "3", "4", "c", "4", "4", "b", "3", "e", "3", "8", "e">>],
      [endpoint |-> "getproducts", param_str |-> << <<"ProductSKU", "A">>, <<"PageNumber", "1">> >>,
       hex |-> <<"9", "2", "b", "7", "b", "a", "e", "c", "9", "5", "9", "6", "e", "8", "9", "f", "7", "2", "3", "5", "d", "3", "9", "f", "6", "7", "5", "a", "7", "4", "9", "2">>],
      [endpoint |-> "getproducts", param_str |-> << <<"PageNumber", "1">>, <<"ProductSKU", "A">> >>,
       hex |-> <<"a", "c", "8", "5", "d", "2", "1", "e", "c", "0", "6", "7", "2", "a", "0", "b", "f", "a", "5", "2", "2", "5", "5", "f", "1", "b", "f", "8", "9", "8", "1", "4">>],
      [endpoint |-> "UpdateProduct", param_str |-> << <<"ProductSKU", "A">> >>,
       hex |-> <<"e", "1", "c", "8", "6", "d", "c", "d", "9", "d", "6", "0", "b", "4", "a", "c", "f", "c", "a", "7", "3", "b", "f", "7", "e", "9", "f", "f", "b", "3", "1", "1">>],
      [endpoint |-> "createproduct", param_str |-> << <<"Description", "d">>, <<"Sku", "A">> >>,
       hex |-> <<"f", "a", "a", "6", "7", "a", "7", "e", "4", "3", "f", "e", "0", "2", "d", "0", "4", "f", "e", "3", "c", "d", "c", "d", "8", "e", "3", "c", "8", "c", "d", "f">>],
      [endpoint |-> "createproduct", param_str |-> << <<"Brand", "b">>, <<"Description", "d">>, <<"Sku", "A">> >>,
       hex |-> <<"b", "d", "b", "8", "4", "2", "f", "a", "b", "4", "e", "2", "0", "0", "d", "c", "a", "e", "9", "9", "a", "8", "b", "2", "f", "c", "3", "2", "3", "0", "f", "6">>],
      [endpoint |-> "updateproduct", param_str |-> << <<"Sku", "A">> >>,
       hex |-> <<"0", "d", "f", "3", "2", "3", "a", "9", "7", "6", "1", "9", "9", "6", "b", "d", "0", "1", "9", "c", "b", "1", "7", "7", "0", "5", "0", "5", "9", "d", "3", "a">>],
      [endpoint |-> "updateproduct", param_str |-> << <<"Description", "d">> >>,
       hex |-> <<"2", "a", "5", "f", "6", "7", "e", "4", "0", "f", "7", "0", "d", "5", "e", "1", "a", "8", "a", "a", "f", "9", "9", "b", "5", "e", "7", "3", "2", "6", "3", "d">>] }

Chars(s) == CharTable[s]

\* str.lower() on one character
LowerChar(c) == IF c \in DOMAIN UpperToLower THEN UpperToLower[c] ELSE c

\* str.lower() on a character sequence
LowerSeq(s) == [i \in 1..Len(s) |-> LowerChar(s[i])]

\* str.lower() on a string of the table
StrLower(s) == CHOOSE t \in DOMAIN CharTable : CharTable[t] = LowerSeq(CharTable[s])

\* Python's `sub in s` on character sequences
Contains(sub, s) ==
    \E i \in 0..(Len(s) - Len(sub)) : \A j \in 1..Len(sub) : s[i + j] = sub[j]

\* Optional values: None is the empty tuple, Some(x) the one-element tuple.
None == << >>
Some(x) == <<x>>

(***************************************************************************)
(* Response values.  A response is what response.json() returned: a dict   *)
(* with or without an "error" key, or a non-dict JSON value (a list).      *)
(* An error message is modelled by what the code reads from it:            *)
(*   has429    "429" in error_msg                                          *)
(*   hasText   "rate limit" in error_msg.lower()                           *)
(*   limit     the N of r'Only (\d+) API calls? per minute', if it matches *)
(*   retry     the number after "Retry after", if it parses as a float     *)
(***************************************************************************)
NoMsg == [has429 |-> FALSE, hasText |-> FALSE, limit |-> None, retry |-> None]

OkValue(d) == [isDict |-> TRUE, hasError |-> FALSE, error |-> NoMsg, data |-> d]
ListValue(d) == [isDict |-> FALSE, hasError |-> FALSE, error |-> NoMsg, data |-> d]
ErrValue(m) == [isDict |-> TRUE, hasError |-> TRUE, error |-> m, data |-> "none"]

\* isinstance(value, dict) and "error" in value
IsErrorValue(v) == v.isDict /\ v.hasError

(***************************************************************************)
(* SimpleCache                                                             *)
(***************************************************************************)
default_ttl == 300

\* self.ttl_config, in insertion order
ttl_config ==
    << <<"warehouses", 3600>>, <<"product", 300>>, <<"products", 60>>,
       <<"inventory", 30>>, <<"default", default_ttl>> >>

CredentialFields == {"TenantToken", "UserToken"}

\* a dict as the sequence of its (key, value) items, in insertion order; the
\* items of a mapping in one of its orders
RECURSIVE ItemsOf(_)
ItemsOf(params) ==
    IF DOMAIN params = {} THEN << >>
    ELSE LET k == CHOOSE k \in DOMAIN params : TRUE
         IN  << <<k, params[k]>> >>
               \o ItemsOf([j \in (DOMAIN params) \ {k} |-> params[j]])

\* {k: v for k, v in params.items() if k not in ["TenantToken", "UserToken"]}
cache_params_items(items) ==
    SelectSeq(items, LAMBDA it : it[1] \notin CredentialFields)

\* the parameter names in use, in the order of Python's str comparison
KeyOrder ==
    <<"Brand", "Description", "PageNumber", "PageSize", "ProductSKU", "Sku",
      "TenantToken", "UserToken">>

KeyRank(k) == CHOOSE i \in 1..Len(KeyOrder) : KeyOrder[i] = k

\* a variant of json_dumps without sort_keys: the items as inserted
json_dumps_unsorted(items) ==
    items

\* json.dumps(cache_params, sort_keys=True): the items in key order
json_dumps(items) ==
    SortSeq(items, LAMBDA a, b : KeyRank(a[1]) < KeyRank(b[1]))

\* hashlib.md5(key_str.encode()).hexdigest() of f"{endpoint}:{param_str}",
\* tabulated
hexdigest(endpoint, param_str) ==
    (CHOOSE r \in MD5Table : r.endpoint = endpoint /\ r.param_str = param_str).hex

\* _get_cache_key on the items of params
_get_cache_key_items(endpoint, items) ==
    hexdigest(endpoint, json_dumps(cache_params_items(items)))

_get_cache_key(endpoint, params) ==
    _get_cache_key_items(endpoint, ItemsOf(params))

\* first key of ttl_config (in insertion order) contained in endpoint.lower()
RECURSIVE TtlScan(_, _)
TtlScan(i, lowered) ==
    IF i > Len(ttl_config) THEN default_ttl
    ELSE IF Contains(Chars(ttl_config[i][1]), lowered) THEN ttl_config[i][2]
    ELSE TtlScan(i + 1, lowered)

_get_ttl(endpoint) == TtlScan(1, LowerSeq(Chars(endpoint)))

\* the cache map without the keys of ks
Without(c, ks) == [k \in (DOMAIN c) \ ks |-> c[k]]

\* cache_get with the expiry test written <= instead of <
cache_get_inclusive(c, t, endpoint, params) ==
    LET cache_key == _get_cache_key(endpoint, params)
    IN  IF cache_key \in DOMAIN c
        THEN IF t <= c[cache_key].expiry
             THEN [ret |-> Some(c[cache_key].value), cache |-> c]
             ELSE [ret |-> None, cache |-> Without(c, {cache_key})]
        ELSE [ret |-> None, cache |-> c]

\* SimpleCache.get at time t: the value returned (None: absent) and the map after
cache_get(c, t, endpoint, params) ==
    LET cache_key == _get_cache_key(endpoint, params)
    IN  IF cache_key \in DOMAIN c
        THEN IF t < c[cache_key].expiry
             THEN [ret |-> Some(c[cache_key].value), cache |-> c]
             ELSE [ret |-> None, cache |-> Without(c, {cache_key})]
        ELSE [ret |-> None, cache |-> c]

\* ttl or self._get_ttl(endpoint): a ttl of None or 0 is falsy
ResolveTtl(endpoint, ttl) ==
    IF ttl # None /\ ttl[1] # 0 THEN ttl[1] ELSE _get_ttl(endpoint)

\* cache_set without the "don't cache error responses" test
cache_set_unchecked(c, t, endpoint, params, value, ttl) ==
    LET cache_key == _get_cache_key(endpoint, params)
        entry == [value |-> value, expiry |-> t + ResolveTtl(endpoint, ttl)]
    IN  [k \in (DOMAIN c) \cup {cache_key} |-> IF k = cache_key THEN entry ELSE c[k]]

\* SimpleCache.set at time t: the map after
cache_set(c, t, endpoint, params, value, ttl) ==
    IF IsErrorValue(value) THEN c
    ELSE LET cache_key == _get_cache_key(endpoint, params)
             entry == [value |-> value, expiry |-> t + ResolveTtl(endpoint, ttl)]
         IN  [k \in (DOMAIN c) \cup {cache_key} |->
                 IF k = cache_key THEN entry ELSE c[k]]

\* to_remove without pattern.lower()
to_remove_case_sensitive(c, pattern) ==
    {key \in DOMAIN c : Contains(Chars(pattern), LowerSeq(key))}

\* the keys invalidate(pattern) collects in to_remove
to_remove(c, pattern) ==
    {key \in DOMAIN c : Contains(LowerSeq(Chars(pattern)), LowerSeq(key))}

\* SimpleCache.invalidate: the count returned and the map after.
\* `if pattern:` is false for None and for the empty string.
cache_invalidate(c, pattern) ==
    IF pattern # None /\ Len(Chars(pattern[1])) > 0
    THEN [ret |-> Cardinality(to_remove(c, pattern[1])),
          cache |-> Without(c, to_remove(c, pattern[1]))]
    ELSE [ret |-> Cardinality(DOMAIN c), cache |-> << >>]

EmptyMap == [k \in {} |-> 0]

\* d[k] = v on a dict
Put(d, k, v) == [x \in (DOMAIN d) \cup {k} |-> IF x = k THEN v ELSE d[x]]

(***************************************************************************)
(* RateLimiter.  The limiter state is the record                           *)
(*   [rate_limits, last_call_times, retry_counts, backoff_until]           *)
(* of its four dicts.                                                      *)
(***************************************************************************)
\* self.rate_limits as __init__ builds it
initial_rate_limits ==
    ("getwarehouses" :> 1) @@ ("getproduct" :> 5) @@ ("getproducts" :> 5)
    @@ ("createproduct" :> 5) @@ ("updateproduct" :> 5)
    @@ ("getinventorybylocation" :> 5) @@ ("setitemquantity" :> 5)
    @@ ("additem" :> 5) @@ ("removeitem" :> 5)
    @@ ("products" :> 5) @@ ("inventory" :> 5) @@ ("warehouses" :> 1)
    @@ ("default" :> 5)

NewLimiter ==
    [rate_limits |-> initial_rate_limits, last_call_times |-> EmptyMap,
     retry_counts |-> EmptyMap, backoff_until |-> EmptyMap]

get_rate_limit_key(L, endpoint) ==
    LET endpoint_lower == StrLower(endpoint)
    IN  IF endpoint_lower \in DOMAIN L.rate_limits THEN endpoint_lower
        ELSE IF Contains(Chars("product"), Chars(endpoint_lower)) THEN "products"
        ELSE IF Contains(Chars("warehouse"), Chars(endpoint_lower)) THEN "warehouses"
        ELSE IF \/ Contains(Chars("inventory"), Chars(endpoint_lower))
                \/ Contains(Chars("location"), Chars(endpoint_lower)) THEN "inventory"
        ELSE "default"

\* self.rate_limits.get(rate_key, 5)
calls_per_minute(L, rate_key) ==
    IF rate_key \in DOMAIN L.rate_limits THEN L.rate_limits[rate_key] ELSE 5

\* min_interval computed from the default limit, not the one of the key
min_interval_default(L, rate_key) == 60 \div 5

\* 60.0 / calls_per_minute; every limit of the model divides 60
min_interval(L, rate_key) == 60 \div calls_per_minute(L, rate_key)

Min(a, b) == IF a <= b THEN a ELSE b

\* handle_rate_limit_error with the exponential backoff left uncapped
handle_rate_limit_error_uncapped(L, t, endpoint, retry_after) ==
    LET rate_key == get_rate_limit_key(L, endpoint)
        count == (IF rate_key \in DOMAIN L.retry_counts
                  THEN L.retry_counts[rate_key] ELSE 0) + 1
        wait_time == IF retry_after # None /\ retry_after[1] # 0
                     THEN retry_after[1]
                     ELSE 2 ^ count
    IN  [wait_time |-> wait_time,
         L |-> [L EXCEPT !.retry_counts = Put(@, rate_key, count),
                         !.backoff_until = Put(@, rate_key, t + wait_time)]]

\* handle_rate_limit_error at time t: the wait returned and the limiter after.
\* `if retry_after:` is false for None and for 0.
handle_rate_limit_error(L, t, endpoint, retry_after) ==
    LET rate_key == get_rate_limit_key(L, endpoint)
        count == (IF rate_key \in DOMAIN L.retry_counts
                  THEN L.retry_counts[rate_key] ELSE 0) + 1
        wait_time == IF retry_after # None /\ retry_after[1] # 0
                     THEN retry_after[1]
                     ELSE Min(2 ^ count, 300)
    IN  [wait_time |-> wait_time,
         L |-> [L EXCEPT !.retry_counts = Put(@, rate_key, count),
                         !.backoff_until = Put(@, rate_key, t + wait_time)]]

reset_retry_count(L, endpoint) ==
    LET rate_key == get_rate_limit_key(L, endpoint)
    IN  [L EXCEPT !.retry_counts = Without(@, {rate_key})]

\* a variant of update_rate_limit_from_error that rewrites the limit of the
\* endpoint's rate key (its class) instead of the endpoint's own entry
update_rate_limit_from_error_class(L, endpoint, message) ==
    IF message.limit # None
    THEN [L EXCEPT !.rate_limits =
                      Put(@, get_rate_limit_key(L, endpoint), message.limit[1])]
    ELSE L

\* update_rate_limit_from_error: message.limit is the N the regular expression
\* r'Only (\d+) API calls? per minute' extracts, None when it does not match
update_rate_limit_from_error(L, endpoint, message) ==
    IF message.limit # None
    THEN [L EXCEPT !.rate_limits = Put(@, StrLower(endpoint), message.limit[1])]
    ELSE L

(***************************************************************************)
(* Bounds and input sets                                                   *)
(***************************************************************************)
MaxTicks == 2
MaxSets == 2

CacheTickSteps == {2, 29}

EmptyParams == << >>
ParamsA == [ProductSKU |-> "A"]

CacheEndpoints == {"getinventorybylocation", "getproducts"}
CacheParams == {ParamsA}

RateLimitMsg == [has429 |-> TRUE, hasText |-> FALSE, limit |-> None, retry |-> None]

CacheValues == {OkValue("d1"), OkValue("d2"), ErrValue(RateLimitMsg)}
CacheTtls == {None, Some(2)}
Patterns == {None, Some(""), Some("product"), Some("DEF"), Some("bb")}

VARIABLES
    now,        \* time.time()
    nticks,     \* clock advances so far
    cache,      \* SimpleCache.cache: cache key -> [value, expiry]
    nsets,      \* SimpleCache.set calls so far
    lastOp,     \* history: the cache operation done at this instant, with its result
    shadow,     \* history: per cache key, the latest stored set since the
                \* latest invalidate: [value, t0, T]
    limiter,    \* global_rate_limiter: the four dicts of RateLimiter
    auth,       \* SkuVaultClient.auth_tokens is set
    callers,    \* per caller: where its call_endpoint coroutine stands, its locals
    ncalls,     \* call_endpoint invocations so far
    returnedAt, \* history: per rate-limit key, when wait_if_needed last returned
    gap,        \* history: the latest return of wait_if_needed: its key, the
                \* previous return for that key, the time, the limit in force
    nlim,       \* RateLimiter methods called directly so far
    lastLim,    \* history: the latest direct RateLimiter call, with its result
    lastWait,   \* history: per rate key, the latest wait handle_rate_limit_error
                \* returned without a retry_after since the key's latest reset
    resetKeys,  \* history: the rate keys reset and not handled since
    loop_time,  \* RequestQueue: the clock, in tenths of a second
    qticks,     \* advances of that clock so far
    pq,         \* RequestQueue.queue: the heap list of the PriorityQueue
    processing, \* RequestQueue.processing
    process_task, \* RequestQueue._process_task: None or the latest worker task
    workers,    \* the _process_queue tasks created so far, each with its state
    results,    \* RequestQueue.results
    active_requests, \* RequestQueue.active_requests
    qcallers,   \* coroutines calling stop_processing and get_result
    nadds,      \* add_request calls so far (the uuid4 of the next request)
    accepted,   \* history: the request ids add_request has returned
    lastQ       \* history: the RequestQueue method that ended in this step

cacheVars == <<cache, nsets, lastOp, shadow>>
clientVars == <<limiter, auth, callers, ncalls, returnedAt, gap>>
limVars == <<nlim, lastLim, lastWait, resetKeys>>
\* of the RequestQueue: what an execution (_process_request) writes, the rest
execVars == <<results, active_requests>>
queueCtlVars == <<loop_time, qticks, pq, processing, process_task, workers,
                  qcallers, nadds, accepted>>
queueVars == <<queueCtlVars, execVars, lastQ>>
vars == <<now, nticks, cache, nsets, lastOp, shadow,
          limiter, auth, callers, ncalls, returnedAt, gap,
          nlim, lastLim, lastWait, resetKeys,
          loop_time, qticks, pq, processing, process_task, workers,
          results, active_requests, qcallers, nadds, accepted, lastQ>>

NoOp == [op |-> "none"]
NoGap == [key |-> "", prev |-> None, at |-> 0, cpm |-> 0, seen |-> 0, backoff |-> FALSE]

Callers == {"c1", "c2"}

\* coroutines that use the request queue
QCallers == {"q1", "q2"}

\* a coroutine that is not inside a RequestQueue method
IdleQCaller ==
    [pc |-> "idle", task |-> 0, request_id |-> 0, timeout |-> 0,
     start_time |-> 0, wake |-> 0,
     \* history: a result was stored for request_id when get_result was called
     stored |-> FALSE,
     \* get_bulk_results: its request_ids and the get_result tasks of its gather
     request_ids |-> << >>, tasks |-> << >>]

\* a caller that is not inside call_endpoint
IdleCaller ==
    [pc |-> "idle", endpoint |-> "", params |-> EmptyParams,
     rate_key |-> "", current_time |-> 0, wake |-> 0, retry_count |-> 0,
     result |-> None, exc |-> "",
     \* history of this invocation: wait_if_needed calls, network attempts,
     \* result served from the cache, rate-limit signal of the latest attempt,
     \* credentials held when it started; of its current wait_if_needed: the
     \* limit the rate sleep was computed from, a backoff sleep was waited out
     gate |-> 0, net |-> 0, hit |-> FALSE, signal |-> "none", authed |-> FALSE,
     seen |-> 0, backoffWaited |-> FALSE,
     \* wait_if_needed was called on the limiter itself, not by call_endpoint
     direct |-> FALSE,
     \* the tool handler of server.py, or _process_request of the RequestQueue,
     \* that made the call ("" when call_endpoint was called on the client
     \* itself), and its confirm argument
     tool |-> "", confirm |-> FALSE,
     \* the active_only argument of get_products
     active_only |-> FALSE,
     \* request.id of the QueuedRequest that _process_request executes
     request_id |-> 0]

Init ==
    /\ now = 0
    /\ nticks = 0
    /\ cache = EmptyMap
    /\ nsets = 0
    /\ lastOp = NoOp
    /\ shadow = EmptyMap
    /\ limiter = NewLimiter
    /\ auth = FALSE
    /\ callers = [c \in Callers |-> IdleCaller]
    /\ ncalls = 0
    /\ returnedAt = EmptyMap
    /\ gap = NoGap
    /\ nlim = 0
    /\ lastLim = NoOp
    /\ lastWait = EmptyMap
    /\ resetKeys = {}
    /\ loop_time = 0
    /\ qticks = 0
    /\ pq = << >>
    /\ processing = FALSE
    /\ process_task = None
    /\ workers = << >>
    /\ results = EmptyMap
    /\ active_requests = 0
    /\ qcallers = [q \in QCallers |-> IdleQCaller]
    /\ nadds = 0
    /\ accepted = {}
    /\ lastQ = NoOp

(***************************************************************************)
(* The cache driven directly: set, get, invalidate and the clock.          *)
(***************************************************************************)
CacheSet(endpoint, params, value, ttl) ==
    /\ nsets < MaxSets
    /\ nsets' = nsets + 1
    /\ cache' = cache_set(cache, now, endpoint, params, value, ttl)
    /\ lastOp' = [op |-> "set", endpoint |-> endpoint, params |-> params,
                  value |-> value, ttl |-> ttl, unchanged |-> (cache' = cache)]
    /\ shadow' =
         IF IsErrorValue(value) THEN shadow
         ELSE LET k == _get_cache_key(endpoint, params)
                  s == [value |-> value, t0 |-> now, T |-> ResolveTtl(endpoint, ttl)]
              IN  [x \in (DOMAIN shadow) \cup {k} |-> IF x = k THEN s ELSE shadow[x]]
    /\ UNCHANGED <<now, nticks>>
    /\ UNCHANGED clientVars
    /\ UNCHANGED limVars
    /\ UNCHANGED queueVars

CacheGet(endpoint, params) ==
    LET r == cache_get(cache, now, endpoint, params)
    IN  /\ cache' = r.cache
        /\ lastOp' = [op |-> "get", endpoint |-> endpoint, params |-> params,
                      ret |-> r.ret,
                      afterErrorSet |->
                          /\ lastOp.op = "set"
                          /\ IsErrorValue(lastOp.value)
                          /\ lastOp.endpoint = endpoint
                          /\ lastOp.params = params
                          /\ _get_cache_key(endpoint, params) \notin DOMAIN cache]
        /\ UNCHANGED <<now, nticks, nsets, shadow>>
        /\ UNCHANGED clientVars
        /\ UNCHANGED limVars
        /\ UNCHANGED queueVars

CacheInvalidate(pattern) ==
    LET r == cache_invalidate(cache, pattern)
    IN  /\ cache' = r.cache
        /\ lastOp' = [op |-> "invalidate", pattern |-> pattern, ret |-> r.ret,
                      before |-> cache,
                      repeated |-> lastOp.op = "invalidate" /\ lastOp.pattern = pattern]
        /\ shadow' = EmptyMap
        /\ UNCHANGED <<now, nticks, nsets>>
        /\ UNCHANGED clientVars
        /\ UNCHANGED limVars
        /\ UNCHANGED queueVars

\* the clock advances; the latest operation is no longer the one just done
CacheTick(d) ==
    /\ nticks < MaxTicks
    /\ nticks' = nticks + 1
    /\ now' = now + d
    /\ lastOp' = NoOp
    /\ UNCHANGED <<cache, nsets, shadow>>
    /\ UNCHANGED clientVars
    /\ UNCHANGED limVars
    /\ UNCHANGED queueVars

NextCache ==
    \/ \E e \in CacheEndpoints, p \in CacheParams, v \in CacheValues, t \in CacheTtls :
          CacheSet(e, p, v, t)
    \/ \E e \in CacheEndpoints, p \in CacheParams : CacheGet(e, p)
    \/ \E pat \in Patterns : CacheInvalidate(pat)
    \/ \E d \in CacheTickSteps : CacheTick(d)

SpecCache == Init /\ [][NextCache]_vars

(***************************************************************************)
(* _get_cache_key applied to two lookups: endpoint names and keyword        *)
(* arguments in every insertion order, with and without credentials.       *)
(***************************************************************************)
KeyEndpoints == {"getproduct", "GetProduct", "getproducts"}

\* the non-credential parameters and the credentials of a lookup
KeyParams ==
    {<< >>, [ProductSKU |-> "A"], [ProductSKU |-> "B"],
     [ProductSKU |-> "A", PageNumber |-> "1"]}
KeyCredentials ==
    {<< >>, [TenantToken |-> "t1", UserToken |-> "u1"],
     [TenantToken |-> "t2", UserToken |-> "u1"]}

\* the items of mapping d in every order
Orders(d) ==
    {s \in [1..Cardinality(DOMAIN d) -> {<<k, d[k]>> : k \in DOMAIN d}] :
        \A i, j \in DOMAIN s : s[i] = s[j] => i = j}

KeyItems == UNION {Orders(p @@ c) : p \in KeyParams, c \in KeyCredentials}

\* a first lookup computes cache._get_cache_key(endpoint, params)
KeyFirst(endpoint, items) ==
    /\ lastOp = NoOp
    /\ lastOp' = [op |-> "key1",
                  a |-> [endpoint |-> endpoint, items |-> items,
                         key |-> _get_cache_key_items(endpoint, items)]]
    /\ UNCHANGED <<now, nticks, cache, nsets, shadow>>
    /\ UNCHANGED clientVars
    /\ UNCHANGED limVars
    /\ UNCHANGED queueVars

\* a second lookup computes its key
KeySecond(endpoint, items) ==
    /\ lastOp.op = "key1"
    /\ lastOp' = [op |-> "key", a |-> lastOp.a,
                  b |-> [endpoint |-> endpoint, items |-> items,
                         key |-> _get_cache_key_items(endpoint, items)]]
    /\ UNCHANGED <<now, nticks, cache, nsets, shadow>>
    /\ UNCHANGED clientVars
    /\ UNCHANGED limVars
    /\ UNCHANGED queueVars

NextKey ==
    \/ \E e \in KeyEndpoints, items \in KeyItems : KeyFirst(e, items)
    \/ \E e \in KeyEndpoints, items \in KeyItems : KeySecond(e, items)

SpecKey == Init /\ [][NextKey]_vars

(***************************************************************************)
(* SkuVaultClient.call_endpoint = with_rate_limit(with_cache(raw call)).   *)
(* The operators below take and return a world record                      *)
(*   W = [L, cache, auth, me, returnedAt, gap, results, active_requests]   *)
(* (me: the locals of the running coroutine) and are chained the way the   *)
(* code runs on between two awaits.                                        *)
(***************************************************************************)
max_retries == 3

\* api_schema["endpoints"]: the registered endpoint names
Registry ==
    {"getproduct", "getproducts", "getwarehouses", "getinventorybylocation",
     "updateproduct", "setitemquantity", "getlocations", "getitemquantities",
     "createproduct"}

\* {"error": ...} as a tool handler returns it
ToolError(text) == [isDict |-> TRUE, hasError |-> TRUE, error |-> NoMsg, data |-> text]

\* the summary batch_update_products returns (server.py lines 1192-1199)
BatchSummary(total, successful) ==
    OkValue([total |-> total, successful |-> successful, failed |-> total - successful])

\* "Products" in response
HasProducts(response) ==
    /\ ~response.hasError
    /\ "Products" \in DOMAIN response.data

\* p.get("IsActive", True)
IsActive(p) == IF "IsActive" \in DOMAIN p THEN p.IsActive ELSE TRUE

\* get_products lines 234-237: response["Products"] and
\* response["FilteredCount"] are assigned in the dict call_endpoint returned
filter_active(response) ==
    LET active_products == SelectSeq(response.data.Products, IsActive)
    IN  [response EXCEPT !.data =
            [k \in (DOMAIN @) \cup {"FilteredCount"} |->
                IF k = "Products" THEN active_products
                ELSE IF k = "FilteredCount" THEN Len(active_products)
                ELSE @[k]]]

\* the assignment of get_products in the world: the dict call_endpoint returned
\* is the object with_cache stored in the cache or took from it (cache.set
\* keeps the reference, cache.get hands it out), so an entry of the call's key
\* that holds this dict shows the assignment
AssignInPlace(W, response, changed) ==
    LET cache_key == _get_cache_key(W.me.endpoint, W.me.params)
    IN  [W EXCEPT !.me.result = Some(changed),
                  !.cache = IF cache_key \in DOMAIN @ /\ @[cache_key].value = response
                            THEN [@ EXCEPT ![cache_key].value = changed]
                            ELSE @]

\* a tool handler after `await api_client.call_endpoint(...)` returned response:
\* call_api_endpoint returns it (line 894); create_product invalidates
\* "product" unless it is an error dict (lines 335-339); batch_update_products
\* counts it, invalidates "product" if an update succeeded and returns the
\* summary (lines 1165-1199); get_products filters the
\* response in place when active_only is set (lines 231-239); _process_request
\* of the RequestQueue stores it under the request id and, in its finally,
\* lowers active_requests (request_queue.py lines 165-169, 188; the request
\* has no callback)
ToolReturn(W, response) ==
    LET ok == ~IsErrorValue(response)
        invalidated == [W EXCEPT !.cache = cache_invalidate(@, Some("product")).cache]
    IN  CASE W.me.tool = "create_product" -> IF ok THEN invalidated ELSE W
          [] W.me.tool = "batch_update_products" ->
                [(IF ok THEN invalidated ELSE W)
                    EXCEPT !.me.result = Some(BatchSummary(1, IF ok THEN 1 ELSE 0))]
          [] W.me.tool = "get_products" ->
                IF W.me.active_only /\ HasProducts(response)
                THEN AssignInPlace(W, response, filter_active(response))
                ELSE W
          [] W.me.tool = "_process_request" ->
                [W EXCEPT !.results = Put(@, W.me.request_id,
                                          [status |-> "success", result |-> response,
                                           completed_at |-> loop_time]),
                          !.active_requests = @ - 1,
                          !.me.result = Some(OkValue("None"))]
          [] OTHER -> W

\* a tool handler when call_endpoint raised: `except SkuVaultAPIError` and
\* `except Exception` return an error dict; the inner function of
\* batch_update_products counts the update as failed; _process_request stores
\* str(e) under the request id (request_queue.py lines 180-188)
ToolExcept(W, exc) ==
    IF W.me.tool = "_process_request"
    THEN [W EXCEPT !.me.pc = "returned",
                   !.me.result = Some(OkValue("None")),
                   !.results = Put(@, W.me.request_id,
                                   [status |-> "error", error |-> exc,
                                    completed_at |-> loop_time]),
                   !.active_requests = @ - 1]
    ELSE [W EXCEPT !.me.pc = "returned",
                   !.me.result = IF W.me.tool = "batch_update_products"
                                 THEN Some(BatchSummary(1, 0))
                                 ELSE Some(ToolError(exc))]

\* call_endpoint returns result to its caller
Return(W, result) ==
    LET W1 == [W EXCEPT !.me.pc = "returned", !.me.result = Some(result),
                        !.me.rate_key = "", !.me.current_time = 0, !.me.wake = 0,
                        !.me.seen = 0, !.me.backoffWaited = FALSE]
    IN  IF W.me.tool = "" THEN W1 ELSE ToolReturn(W1, result)

\* an exception leaves call_endpoint (`except Exception: raise`)
Raise(W, exc) ==
    LET W1 == [W EXCEPT !.me.pc = "raised", !.me.exc = exc,
                        !.me.rate_key = "", !.me.current_time = 0, !.me.wake = 0,
                        !.me.seen = 0, !.me.backoffWaited = FALSE]
    IN  IF W.me.tool = "" THEN W1 ELSE ToolExcept(W1, exc)

\* "429" in error_msg or "rate limit" in error_msg.lower()
IsRateLimitResult(result) ==
    IsErrorValue(result) /\ (result.error.has429 \/ result.error.hasText)

\* a variant of AfterCall that sleeps and retries after every rate-limited
\* attempt, whatever the number of attempts made
AfterCall_always_retry(W, t, result) ==
    IF IsRateLimitResult(result)
    THEN LET L1 == update_rate_limit_from_error(W.L, W.me.endpoint, result.error)
             h == handle_rate_limit_error(L1, t, W.me.endpoint, result.error.retry)
         IN  [W EXCEPT !.L = h.L, !.me.pc = "retry_sleep",
                       !.me.wake = t + h.wait_time,
                       !.me.result = Some(result)]
    ELSE Return([W EXCEPT !.L = reset_retry_count(W.L, W.me.endpoint)], result)

\* with_rate_limit.wrapper once func has returned result (lines 167-191)
AfterCall(W, t, result) ==
    IF IsRateLimitResult(result)
    THEN LET L1 == update_rate_limit_from_error(W.L, W.me.endpoint, result.error)
             h == handle_rate_limit_error(L1, t, W.me.endpoint, result.error.retry)
         IN  IF W.me.retry_count < max_retries - 1
             THEN [W EXCEPT !.L = h.L, !.me.pc = "retry_sleep",
                            !.me.wake = t + h.wait_time,
                            !.me.result = Some(result)]
             ELSE Return([W EXCEPT !.L = reset_retry_count(h.L, W.me.endpoint)],
                         result)
    ELSE Return([W EXCEPT !.L = reset_retry_count(W.L, W.me.endpoint)], result)

\* the undecorated call_endpoint up to `await self.client.post`
RawCall(W) ==
    IF StrLower(W.me.endpoint) \notin Registry THEN Raise(W, "UnknownEndpoint")
    ELSE IF ~W.auth THEN Raise(W, "AuthenticationRequired")
    ELSE [W EXCEPT !.me.pc = "network", !.me.net = @ + 1]

\* with_cache.wrapper up to the await of the wrapped call
CachedCall(W, t) ==
    LET r == cache_get(W.cache, t, W.me.endpoint, W.me.params)
        W1 == [W EXCEPT !.cache = r.cache]
    IN  IF r.ret # None
        THEN AfterCall([W1 EXCEPT !.me.hit = TRUE], t, r.ret[1])
        ELSE RawCall(W1)

\* wait_if_needed line 88 and its return: to the code that called it on the
\* limiter, or into the wrapper, which calls func
GateReturn(W, t) ==
    LET k == W.me.rate_key
        W1 == [W EXCEPT
                 !.L.last_call_times = Put(@, k, t),
                 !.gap = [key |-> k,
                          prev |-> IF k \in DOMAIN W.returnedAt
                                   THEN Some(W.returnedAt[k]) ELSE None,
                          at |-> t, cpm |-> calls_per_minute(W.L, k),
                          seen |-> IF W.me.pc = "rate_sleep" THEN W.me.seen
                                   ELSE calls_per_minute(W.L, k),
                          backoff |-> W.me.backoffWaited],
                 !.returnedAt = Put(@, k, t)]
    IN  IF W.me.direct THEN Return(W1, OkValue("None")) ELSE CachedCall(W1, t)

\* wait_if_needed lines 76-85: the regular rate limit, with the current_time
\* read when wait_if_needed was entered
RegularCheck(W, t) ==
    LET k == W.me.rate_key
        last == W.L.last_call_times
    IN  IF k \notin DOMAIN last THEN GateReturn(W, t)
        ELSE IF calls_per_minute(W.L, k) = 0 THEN Raise(W, "ZeroDivisionError")
        ELSE IF W.me.current_time - last[k] < min_interval(W.L, k)
        THEN [W EXCEPT !.me.pc = "rate_sleep",
                       !.me.seen = calls_per_minute(W.L, k),
                       !.me.wake = t + (min_interval(W.L, k)
                                          - (W.me.current_time - last[k]))]
        ELSE GateReturn(W, t)

\* wait_if_needed from its entry at time t to its first await or its return
WaitEntry(W, t) ==
    LET k == get_rate_limit_key(W.L, W.me.endpoint)
        W1 == [W EXCEPT !.me.rate_key = k, !.me.current_time = t,
                        !.me.gate = @ + 1, !.me.seen = 0,
                        !.me.backoffWaited = FALSE]
        backoff == W.L.backoff_until
    IN  IF k \in DOMAIN backoff /\ backoff[k] - t > 0
        THEN [W1 EXCEPT !.me.pc = "backoff_sleep", !.me.wake = t + (backoff[k] - t)]
        ELSE RegularCheck(W1, t)

(***************************************************************************)
(* Callers of call_endpoint on the event loop                              *)
(***************************************************************************)
MaxCalls == 2
MaxClientTicks == 4
MaxConcurrentTicks == 3

ClientTickSteps == {10, 60}
ClientEndpoints == {"getwarehouses", "updateproduct"}
ClientParams == {ParamsA}

\* "Only 1 API calls per minute guaranteed", with "429" in it
LimitMsg == [has429 |-> TRUE, hasText |-> FALSE, limit |-> Some(1), retry |-> None]
\* an error that is no rate-limit signal
OtherMsg == NoMsg

\* what the remote service answers to one POST
NetOutcomes ==
    {[kind |-> "json", value |-> OkValue("d1"), status |-> 200],
     [kind |-> "json", value |-> ErrValue(LimitMsg), status |-> 200],
     [kind |-> "json", value |-> ErrValue(OtherMsg), status |-> 200],
     [kind |-> "http", value |-> OkValue("none"), status |-> 429],
     [kind |-> "http", value |-> OkValue("none"), status |-> 500],
     \* httpx raises (no response), response.json() raises (malformed body)
     [kind |-> "transport", value |-> OkValue("none"), status |-> 0],
     [kind |-> "malformed", value |-> OkValue("none"), status |-> 200]}

World(c) ==
    [L |-> limiter, cache |-> cache, auth |-> auth, me |-> callers[c],
     returnedAt |-> returnedAt, gap |-> NoGap,
     results |-> results, active_requests |-> active_requests]

Commit(c, W) ==
    /\ limiter' = W.L
    /\ cache' = W.cache
    /\ callers' = [callers EXCEPT ![c] = W.me]
    /\ returnedAt' = W.returnedAt
    /\ gap' = W.gap
    /\ results' = W.results
    /\ active_requests' = W.active_requests
    /\ lastQ' = NoOp
    /\ UNCHANGED <<now, nticks, auth, nsets, lastOp, shadow>>
    /\ UNCHANGED limVars
    /\ UNCHANGED queueCtlVars

\* a caller invokes call_endpoint(endpoint, **params)
Start(c, endpoint, params) ==
    /\ callers[c].pc \in {"idle", "returned", "raised"}
    /\ ncalls < MaxCalls
    /\ ncalls' = ncalls + 1
    /\ Commit(c, WaitEntry([World(c) EXCEPT
                               !.me = [IdleCaller EXCEPT !.pc = "running",
                                                         !.endpoint = endpoint,
                                                         !.params = params,
                                                         !.authed = auth]], now))

\* the backoff sleep of wait_if_needed ends (lines 72-74), then lines 76-88
WakeBackoff(c) ==
    /\ callers[c].pc = "backoff_sleep"
    /\ now >= callers[c].wake
    /\ LET W == World(c)
           k == W.me.rate_key
       IN  Commit(c, IF k \notin DOMAIN W.L.backoff_until
                     THEN Raise(W, "KeyError")
                     ELSE RegularCheck(
                            [W EXCEPT !.L.backoff_until = Without(@, {k}),
                                      !.me.backoffWaited = TRUE], now))
    /\ UNCHANGED ncalls

\* the rate sleep of wait_if_needed ends (line 85), then line 88
WakeRate(c) ==
    /\ callers[c].pc = "rate_sleep"
    /\ now >= callers[c].wake
    /\ Commit(c, GateReturn(World(c), now))
    /\ UNCHANGED ncalls

\* the wrapper's sleep before a retry ends (lines 185-187)
WakeRetry(c) ==
    /\ callers[c].pc = "retry_sleep"
    /\ now >= callers[c].wake
    /\ Commit(c, WaitEntry([World(c) EXCEPT !.me.retry_count = @ + 1], now))
    /\ UNCHANGED ncalls

\* with_cache.wrapper once the wrapped call has returned result (lines 165-169)
CacheStore(W, t, result) ==
    IF ~IsErrorValue(result)
    THEN [W EXCEPT !.cache = cache_set(@, t, W.me.endpoint, W.me.params, result, None)]
    ELSE W

\* a variant of PostFailed that treats the failure as a rate-limit signal
PostFailed_backoff(W, o) ==
    Raise([W EXCEPT !.L = handle_rate_limit_error(W.L, now, W.me.endpoint, None).L,
                    !.me.signal = IF o.status = 429 THEN "http" ELSE "none"],
          "SkuVaultAPIError")

\* call_endpoint lines 197-204: raise_for_status, the transport or
\* response.json() raised; both except branches raise SkuVaultAPIError, which
\* passes through with_cache and through `except Exception: raise`
PostFailed(W, o) ==
    Raise([W EXCEPT !.me.signal = IF o.status = 429 THEN "http" ELSE "none"],
          "SkuVaultAPIError")

\* the POST of call_endpoint completes (api_client.py lines 192-204)
NetRespond(c, o) ==
    /\ callers[c].pc = "network"
    /\ LET W == World(c)
       IN  Commit(c,
             IF o.kind = "json"
             THEN AfterCall(
                    CacheStore([W EXCEPT !.me.signal =
                                   IF IsRateLimitResult(o.value) THEN "body" ELSE "none"],
                               now, o.value),
                    now, o.value)
             ELSE PostFailed(W, o))
    /\ UNCHANGED ncalls

\* SkuVaultClient.authenticate succeeds: the tokens are held from now on
Authenticate ==
    /\ ~auth
    /\ auth' = TRUE
    /\ gap' = NoGap
    /\ UNCHANGED <<now, nticks, cacheVars, limiter, callers, ncalls, returnedAt>>
    /\ UNCHANGED limVars
    /\ UNCHANGED queueVars

\* time passes: by a fixed step, or up to the wake-up time of a sleeper
ClientTick(CS, maxTicks, d) ==
    /\ nticks < maxTicks
    /\ \/ d \in ClientTickSteps
       \/ \E c \in CS : /\ callers[c].pc \in {"backoff_sleep", "rate_sleep", "retry_sleep"}
                        /\ callers[c].wake = now + d
    /\ d > 0
    /\ now' = now + d
    /\ nticks' = nticks + 1
    /\ gap' = NoGap
    /\ UNCHANGED <<cacheVars, limiter, auth, callers, ncalls, returnedAt>>
    /\ UNCHANGED limVars
    /\ UNCHANGED queueVars

MaxDelay == 60

NextFor(CS, maxTicks) ==
    \/ \E c \in CS, e \in ClientEndpoints, p \in ClientParams : Start(c, e, p)
    \/ \E c \in CS : WakeBackoff(c)
    \/ \E c \in CS : WakeRate(c)
    \/ \E c \in CS : WakeRetry(c)
    \/ \E c \in CS, o \in NetOutcomes : NetRespond(c, o)
    \/ Authenticate
    \/ \E d \in 1..MaxDelay : ClientTick(CS, maxTicks, d)

Next == NextFor(Callers, MaxConcurrentTicks)
Spec == Init /\ [][Next]_vars

\* one caller: every call starts after the previous one returned
NextSeq == NextFor({"c1"}, MaxClientTicks)
SpecSeq == Init /\ [][NextSeq]_vars

(***************************************************************************)
(* The tool handlers of server.py that gate a mutating operation behind    *)
(* confirm: call_api_endpoint, create_product and batch_update_products,   *)
(* called one after the other.  A tool is called with keyword arguments    *)
(* kw.  The update lists given to batch_update_products have at most one   *)
(* item, so its asyncio.gather runs one call_endpoint.                     *)
(***************************************************************************)
REQUIRE_CONFIRMATION == TRUE

MUTATING_ENDPOINTS ==
    {"additem", "additembulk", "removeitem", "removeitembulk",
     "createproduct", "createproducts", "updateproduct", "updateproducts",
     "setitemquantity", "setitemquantities", "pickitem", "pickitembulk",
     "createkit", "createbrands", "createsuppliers", "createpo",
     "updatepos", "updateshipments", "updatehandlingtime",
     "updateonlinesalestatus", "updatealtskuscodes",
     "syncshippedsaleandremoveitems", "syncshippedsaleandremoveitemsbulk",
     "synconlinesale", "synconlinesales", "addshipments",
     "createholds", "releaseheldquantities", "receivepoitems", "createlot"}

\* format_confirmation_message: the header line with the action, one
\* "key: value" line per detail, the footer
format_confirmation_message(action, details) ==
    [header |-> action, lines |-> details,
     footer |-> "To proceed with this action, please confirm"]

\* the dict a handler returns instead of acting
ConfirmationRequired(title, details, action, parameters) ==
    OkValue([confirmation_required |-> TRUE,
             message |-> format_confirmation_message(title, details),
             action |-> action,
             parameters |-> parameters])

\* a handler returns value without having called call_endpoint
ToolDone(W, value) == [W EXCEPT !.me.pc = "returned", !.me.result = Some(value)]

\* api_client = get_client(); await api_client.call_endpoint(endpoint, **params)
ToolCall(W, t, endpoint, params) ==
    WaitEntry([W EXCEPT !.me.endpoint = endpoint, !.me.params = params], t)

\* `confirm: bool = False`
ConfirmOf(kw) == IF "confirm" \in DOMAIN kw THEN kw.confirm ELSE FALSE

\* a variant of call_api_endpoint that compares the name as given with the list
call_api_endpoint_case_sensitive(W, t, kw) ==
    LET endpoint_name == kw.endpoint_name
        parameters == [k \in (DOMAIN kw) \ {"endpoint_name", "confirm"} |-> kw[k]]
        is_mutating == endpoint_name \in MUTATING_ENDPOINTS
    IN  IF is_mutating /\ REQUIRE_CONFIRMATION /\ ~ConfirmOf(kw)
        THEN ToolDone(W, ConfirmationRequired(
                 "API Call",
                 [Action |-> "Call API Endpoint", Endpoint |-> endpoint_name,
                  Parameters |-> parameters],
                 "call_api_endpoint",
                 [endpoint_name |-> endpoint_name, confirm |-> TRUE] @@ parameters))
        ELSE ToolCall(W, t, endpoint_name, parameters)

\* call_api_endpoint(endpoint_name, confirm=False, **parameters), lines 842-899
call_api_endpoint(W, t, kw) ==
    LET endpoint_name == kw.endpoint_name
        parameters == [k \in (DOMAIN kw) \ {"endpoint_name", "confirm"} |-> kw[k]]
        is_mutating == StrLower(endpoint_name) \in MUTATING_ENDPOINTS
    IN  IF is_mutating /\ REQUIRE_CONFIRMATION /\ ~ConfirmOf(kw)
        THEN ToolDone(W, ConfirmationRequired(
                 "API Call",
                 [Action |-> "Call API Endpoint", Endpoint |-> endpoint_name,
                  Parameters |-> parameters],
                 "call_api_endpoint",
                 [endpoint_name |-> endpoint_name, confirm |-> TRUE] @@ parameters))
        ELSE ToolCall(W, t, endpoint_name, parameters)

\* `if brand:` on an optional string
Truthy(opt) == opt # None /\ opt[1] # ""

\* create_product(sku, description, cost, ..., confirm=False), lines 249-345;
\* the prices are None in every call made here
create_product(W, t, kw) ==
    LET details == [Action |-> "Create New Product", SKU |-> kw.sku,
                    Description |-> kw.description]
                     @@ (IF Truthy(kw.brand) THEN [Brand |-> kw.brand[1]] ELSE << >>)
                     @@ (IF Truthy(kw.supplier) THEN [Supplier |-> kw.supplier[1]]
                         ELSE << >>)
        params == [Sku |-> kw.sku, Description |-> kw.description]
                     @@ (IF Truthy(kw.brand) THEN [Brand |-> kw.brand[1]] ELSE << >>)
                     @@ (IF Truthy(kw.supplier) THEN [Supplier |-> kw.supplier[1]]
                         ELSE << >>)
    IN  IF REQUIRE_CONFIRMATION /\ ~ConfirmOf(kw)
        THEN ToolDone(W, ConfirmationRequired(
                 "Create Product", details, "create_product",
                 [sku |-> kw.sku, description |-> kw.description, cost |-> kw.cost,
                  sale_price |-> kw.sale_price, retail_price |-> kw.retail_price,
                  brand |-> kw.brand, supplier |-> kw.supplier, confirm |-> TRUE]))
        ELSE ToolCall(W, t, "createproduct", params)

max_items == 100
max_sku_length == 100
InvalidSkuChars == {"/", "\\", "?", "<", ">", "|", "\"", "*"}
\* the characters str.strip() removes
Whitespace == {" ", "\t", "\n", "\r"}

\* validators.validate_bulk_items: the error message, None when valid
validate_bulk_items(items, maxItems) ==
    IF Len(items) = 0 THEN Some("No items provided for bulk operation")
    ELSE IF Len(items) > maxItems THEN Some("Bulk operation exceeds maximum")
    ELSE None

\* validators.validate_sku: the error message, None when valid
validate_sku(sku) ==
    LET cs == Chars(sku)
    IN  IF Len(cs) = 0 THEN Some("SKU cannot be empty")
        ELSE IF Len(cs) > max_sku_length THEN Some("SKU cannot exceed 100 characters")
        ELSE IF \E i \in 1..Len(cs) : cs[i] \in InvalidSkuChars
        THEN Some("SKU cannot contain character")
        ELSE IF cs[1] \in Whitespace \/ cs[Len(cs)] \in Whitespace
        THEN Some("SKU cannot have leading or trailing whitespace")
        ELSE None

\* batch_update_products(updates, confirm=False), lines 1103-1204
batch_update_products(W, t, kw) ==
    LET updates == kw.updates
        bad == {i \in 1..Len(updates) :
                   \/ "Sku" \notin DOMAIN updates[i]
                   \/ validate_sku(updates[i].Sku) # None}
    IN  IF validate_bulk_items(updates, max_items) # None
        THEN ToolDone(W, ToolError(validate_bulk_items(updates, max_items)[1]))
        ELSE IF bad # {}
        THEN ToolDone(W, ToolError("Item: missing or invalid Sku"))
        ELSE IF REQUIRE_CONFIRMATION /\ ~ConfirmOf(kw)
        THEN ToolDone(W, ConfirmationRequired(
                 "Batch Update Products",
                 [Action |-> "Batch Update Products",
                  NumberOfProducts |-> Len(updates),
                  SKUs |-> [i \in 1..Min(Len(updates), 5) |-> updates[i].Sku],
                  SampleChanges |-> updates[1]],
                 "batch_update_products",
                 [updates |-> updates, confirm |-> TRUE]))
        ELSE ToolCall(W, t, "updateproduct", updates[1])

\* get_products(page_number, page_size, skus, get_all, active_only), lines
\* 145-245, for get_all = False and skus = None: one page is requested
get_products(W, t, kw) ==
    LET params == [PageNumber |-> kw.page_number, PageSize |-> kw.page_size]
    IN  ToolCall([W EXCEPT !.me.active_only = kw.active_only], t, "getproducts", params)

MaxToolCalls == 2
MaxToolTicks == 5

ToolEndpoints == {"getwarehouses", "updateproduct", "UpdateProduct"}
BatchUpdates ==
    {<< >>, <<[Sku |-> "A"]>>, <<[Description |-> "d"]>>, <<[Sku |-> "A*"]>>}

\* the calls made: tool name and keyword arguments (confirm may be left out)
ToolInputs ==
    {[tool |-> "call_api_endpoint",
      kw |-> [endpoint_name |-> e, ProductSKU |-> "A"]] : e \in ToolEndpoints}
    \cup {[tool |-> "call_api_endpoint",
           kw |-> [endpoint_name |-> e, confirm |-> b, ProductSKU |-> "A"]] :
             e \in ToolEndpoints, b \in BOOLEAN}
    \cup {[tool |-> "create_product",
           kw |-> [sku |-> "A", description |-> "d", cost |-> None,
                   sale_price |-> None, retail_price |-> None, brand |-> br,
                   supplier |-> None, confirm |-> b]] :
             br \in {None, Some("b")}, b \in BOOLEAN}
    \cup {[tool |-> "batch_update_products", kw |-> [updates |-> u, confirm |-> b]] :
             u \in BatchUpdates, b \in BOOLEAN}

\* a client invokes a tool
ToolStart(c, tool, kw) ==
    /\ callers[c].pc \in {"idle", "returned", "raised"}
    /\ ncalls < MaxToolCalls
    /\ ncalls' = ncalls + 1
    /\ LET W == [World(c) EXCEPT
                   !.me = [IdleCaller EXCEPT !.pc = "running", !.tool = tool,
                                             !.confirm = ConfirmOf(kw),
                                             !.authed = auth]]
       IN  Commit(c, CASE tool = "call_api_endpoint" -> call_api_endpoint(W, now, kw)
                       [] tool = "create_product" -> create_product(W, now, kw)
                       [] tool = "batch_update_products" ->
                             batch_update_products(W, now, kw)
                       [] tool = "get_products" -> get_products(W, now, kw))

\* the client waits for its call: time passes up to the wake-up time of the
\* sleep the call is in (the client makes its calls one right after the other)
ToolTick(d) ==
    /\ callers["c1"].pc \in {"backoff_sleep", "rate_sleep", "retry_sleep"}
    /\ callers["c1"].wake = now + d
    /\ ClientTick({"c1"}, MaxToolTicks, d)

NextTool ==
    \/ \E i \in ToolInputs : ToolStart("c1", i.tool, i.kw)
    \/ WakeBackoff("c1")
    \/ WakeRate("c1")
    \/ WakeRetry("c1")
    \/ \E o \in NetOutcomes : NetRespond("c1", o)
    \/ Authenticate
    \/ \E d \in 1..MaxDelay : ToolTick(d)

SpecTool == Init /\ [][NextTool]_vars

(***************************************************************************)
(* get_products called by one client, with and without active_only, for    *)
(* the first page of 100 products.                                          *)
(***************************************************************************)
MaxProductTicks == 3

\* the page the service returns: an active and an inactive product
ProductPage ==
    OkValue([Products |-> <<[Sku |-> "A", IsActive |-> TRUE],
                            [Sku |-> "B", IsActive |-> FALSE]>>,
             TotalRecords |-> 2])

ProductOutcomes ==
    {[kind |-> "json", value |-> ProductPage, status |-> 200],
     [kind |-> "json", value |-> ErrValue(OtherMsg), status |-> 200]}

ProductInputs ==
    {[tool |-> "get_products",
      kw |-> [page_number |-> "0", page_size |-> "100", active_only |-> b]] :
        b \in BOOLEAN}

NextProducts ==
    \/ \E i \in ProductInputs : ToolStart("c1", i.tool, i.kw)
    \/ WakeRate("c1")
    \/ \E o \in ProductOutcomes : NetRespond("c1", o)
    \/ Authenticate
    \/ \E d \in 1..MaxDelay : ClientTick({"c1"}, MaxProductTicks, d)

SpecProducts == Init /\ [][NextProducts]_vars

(***************************************************************************)
(* The RateLimiter driven directly: its three synchronous methods called   *)
(* in any order (SpecLimCalls), and these together with wait_if_needed     *)
(* called by two concurrent coroutines (SpecLim).                          *)
(***************************************************************************)
MaxLimOps == 9
MaxGateOps == 2
MaxWaits == 2
MaxLimTicks == 2

\* getlocations is classified by substring until a limit is advertised for it
CallEndpoints == {"getlocations"}
LimEndpoints == {"getwarehouses", "getlocations"}
\* update_rate_limit_from_error is also called with a name in mixed case
UpdateEndpoints == CallEndpoints \cup {"GetProduct"}
LimRetries == {None, Some(0), Some(7)}

\* "429 ... Only 0 API calls per minute guaranteed"
ZeroLimitMsg == [has429 |-> TRUE, hasText |-> FALSE, limit |-> Some(0), retry |-> None]
LimMessages == {LimitMsg, ZeroLimitMsg, RateLimitMsg}

\* rate_limiter.handle_rate_limit_error(endpoint, retry_after)
LimHandle(maxOps, endpoint, retry_after) ==
    LET k == get_rate_limit_key(limiter, endpoint)
        h == handle_rate_limit_error(limiter, now, endpoint, retry_after)
    IN  /\ nlim < maxOps
        /\ nlim' = nlim + 1
        /\ limiter' = h.L
        /\ lastLim' = [op |-> "handle", key |-> k,
                       retry_after |-> retry_after, wait_time |-> h.wait_time,
                       prev |-> IF k \in DOMAIN lastWait THEN Some(lastWait[k])
                                ELSE None,
                       fresh |-> k \in resetKeys]
        /\ lastWait' = IF retry_after = None THEN Put(lastWait, k, h.wait_time)
                       ELSE lastWait
        /\ resetKeys' = resetKeys \ {k}
        /\ gap' = NoGap
        /\ UNCHANGED <<now, nticks, cacheVars, auth, callers, ncalls, returnedAt>>
        /\ UNCHANGED queueVars

\* rate_limiter.reset_retry_count(endpoint)
LimReset(maxOps, endpoint) ==
    LET k == get_rate_limit_key(limiter, endpoint)
    IN  /\ nlim < maxOps
        /\ nlim' = nlim + 1
        /\ limiter' = reset_retry_count(limiter, endpoint)
        /\ lastLim' = [op |-> "reset", endpoint |-> endpoint, key |-> k]
        /\ lastWait' = Without(lastWait, {k})
        /\ resetKeys' = resetKeys \cup {k}
        /\ gap' = NoGap
        /\ UNCHANGED <<now, nticks, cacheVars, auth, callers, ncalls, returnedAt>>
        /\ UNCHANGED queueVars

\* rate_limiter.update_rate_limit_from_error(endpoint, error_message)
LimUpdate(maxOps, endpoint, message) ==
    /\ nlim < maxOps
    /\ nlim' = nlim + 1
    /\ limiter' = update_rate_limit_from_error(limiter, endpoint, message)
    /\ lastLim' = [op |-> "update", endpoint |-> endpoint, message |-> message]
    /\ gap' = NoGap
    /\ UNCHANGED <<now, nticks, cacheVars, auth, callers, ncalls, returnedAt,
                   lastWait, resetKeys>>
    /\ UNCHANGED queueVars

\* a coroutine calls rate_limiter.wait_if_needed(endpoint)
LimWait(c, endpoint) ==
    /\ callers[c].pc \in {"idle", "returned", "raised"}
    /\ ncalls < MaxWaits
    /\ ncalls' = ncalls + 1
    /\ Commit(c, WaitEntry([World(c) EXCEPT
                               !.me = [IdleCaller EXCEPT !.pc = "running",
                                                         !.endpoint = endpoint,
                                                         !.direct = TRUE]], now))

NextLimCalls ==
    \/ \E e \in CallEndpoints, r \in LimRetries : LimHandle(MaxLimOps, e, r)
    \/ \E e \in CallEndpoints : LimReset(MaxLimOps, e)
    \/ \E e \in UpdateEndpoints, m \in LimMessages : LimUpdate(MaxLimOps, e, m)

SpecLimCalls == Init /\ [][NextLimCalls]_vars

NextLim ==
    \/ \E e \in CallEndpoints, r \in LimRetries : LimHandle(MaxGateOps, e, r)
    \/ \E e \in CallEndpoints : LimReset(MaxGateOps, e)
    \/ \E e \in CallEndpoints, m \in LimMessages : LimUpdate(MaxGateOps, e, m)
    \/ \E c \in Callers, e \in LimEndpoints : LimWait(c, e)
    \/ \E c \in Callers : WakeBackoff(c)
    \/ \E c \in Callers : WakeRate(c)
    \/ \E d \in 1..MaxDelay : ClientTick(Callers, MaxLimTicks, d)

SpecLim == Init /\ [][NextLim]_vars

(***************************************************************************)
(* RequestQueue.  Time is counted in tenths of a second (the polling       *)
(* interval of get_result); datetime.now() and the event loop's time() are *)
(* read from the one clock loop_time.                                      *)
(***************************************************************************)
MaxAdds == 2
MaxWorkers == 2
MaxQTicks == 2

Priorities == {1, 9}
QTickSteps == {1, 2}
GetTimeouts == {0, 2}
\* the request id asked for: the id of the first request, also before
\* add_request has returned it
GetIds == {1}
\* the coroutines that call get_result
Getters == {"q1"}

\* the names api_client.py defines at module level
ApiClientNames == {"SkuVaultAPIError", "SkuVaultClient", "logger"}

\* Python's a < b on the queued tuples (-priority, created_at, request): it is
\* decided by the first two components; when both are equal the QueuedRequest
\* objects are compared, which define no ordering (TypeError)
TupleComparable(a, b) == a.neg # b.neg \/ a.created_at # b.created_at
TupleLt(a, b) ==
    IF a.neg # b.neg THEN a.neg < b.neg ELSE a.created_at < b.created_at

\* heapq._siftdown(heap, 0, pos) with newitem taken out of heap[pos]; positions
\* count from 1 here, so the parent of pos is pos \div 2
RECURSIVE _siftdown(_, _, _)
_siftdown(heap, newitem, pos) ==
    IF pos = 1 THEN [heap |-> [heap EXCEPT ![1] = newitem], raised |-> FALSE]
    ELSE LET parent == heap[pos \div 2]
         IN  IF ~TupleComparable(newitem, parent)
             THEN [heap |-> heap, raised |-> TRUE]
             ELSE IF TupleLt(newitem, parent)
             THEN _siftdown([heap EXCEPT ![pos] = parent], newitem, pos \div 2)
             ELSE [heap |-> [heap EXCEPT ![pos] = newitem], raised |-> FALSE]

\* a variant of heappush that overwrites the last leaf of a non-empty heap
heappush_overwrite(heap, item) ==
    IF heap = << >> THEN _siftdown(<<item>>, item, 1)
    ELSE _siftdown([heap EXCEPT ![Len(heap)] = item], item, Len(heap))

\* heapq.heappush, as PriorityQueue._put calls it
heappush(heap, item) == _siftdown(Append(heap, item), item, Len(heap) + 1)

\* the worker tasks that have not finished
AliveWorkers(ws) ==
    {w \in DOMAIN ws : ws[w] \in {"pending", "cancelling", "looping"}}

\* start_processing (lines 111-113): a new _process_queue task is created
\* unless the flag is set
start_processing ==
    IF ~processing
    THEN /\ Len(workers) < MaxWorkers
         /\ processing' = TRUE
         /\ workers' = Append(workers, "pending")
         /\ process_task' = Some(Len(workers) + 1)
    ELSE UNCHANGED <<processing, workers, process_task>>

\* a coroutine calls start_processing()
StartProcessing ==
    /\ start_processing
    /\ lastQ' = [op |-> "start_processing"]
    /\ UNCHANGED <<loop_time, qticks, pq, results, qcallers, nadds, accepted>>
    /\ UNCHANGED <<now, nticks, cacheVars, clientVars, limVars, active_requests>>

\* a coroutine calls add_request(endpoint, params, priority): it runs to its
\* return without suspending (the queue is unbounded)
AddRequest(priority) ==
    LET id == nadds + 1
        item == [neg |-> 0 - priority, created_at |-> loop_time, id |-> id]
        r == heappush(pq, item)
    IN  /\ nadds < MaxAdds
        /\ nadds' = id
        /\ pq' = r.heap
        /\ IF r.raised
           THEN /\ UNCHANGED <<processing, workers, process_task, accepted>>
                /\ lastQ' = [op |-> "add_request", id |-> id, outcome |-> "TypeError"]
           ELSE /\ start_processing
                /\ accepted' = accepted \cup {id}
                /\ lastQ' = [op |-> "add_request", id |-> id, outcome |-> "returned"]
        /\ UNCHANGED <<loop_time, qticks, results, qcallers>>
        /\ UNCHANGED <<now, nticks, cacheVars, clientVars, limVars, active_requests>>

\* a _process_queue task runs for the first time: cancelled before it started,
\* it ends cancelled; otherwise line 129 imports get_client from api_client,
\* which does not define it, and the task ends with ImportError
WorkerStep(w) ==
    /\ w \in DOMAIN workers
    /\ workers[w] \in {"pending", "cancelling"}
    /\ workers' = [workers EXCEPT ![w] =
                      IF @ = "cancelling" THEN "cancelled"
                      ELSE IF "get_client" \in ApiClientNames THEN "looping"
                      ELSE "failed"]
    /\ lastQ' = NoOp
    /\ UNCHANGED <<loop_time, qticks, pq, processing, process_task, results,
                   qcallers, nadds, accepted>>
    /\ UNCHANGED <<now, nticks, cacheVars, clientVars, limVars, active_requests>>

\* stop_processing ends in coroutine q with outcome: "returned" or an exception
StopEnd(q, ws, outcome) ==
    /\ qcallers' = [qcallers EXCEPT ![q] = IdleQCaller]
    /\ lastQ' = [op |-> "stop_processing", outcome |-> outcome,
                 alive |-> AliveWorkers(ws)]

\* `await self._process_task` on a finished task: CancelledError is caught,
\* any other exception of the task leaves stop_processing
AwaitOutcome(state) == IF state = "cancelled" THEN "returned" ELSE "ImportError"

\* stop_processing lines 118-122, up to its return or its suspension
StopBegin(q) ==
    /\ qcallers[q].pc = "idle"
    /\ processing' = FALSE
    /\ IF process_task = None
       THEN /\ workers' = workers
            /\ StopEnd(q, workers, "returned")
       ELSE LET w == process_task[1]
                ws == [workers EXCEPT ![w] = IF @ = "pending" THEN "cancelling" ELSE @]
            IN  /\ workers' = ws
                /\ IF w \in AliveWorkers(ws)
                   THEN /\ qcallers' = [qcallers EXCEPT ![q] =
                                [IdleQCaller EXCEPT !.pc = "stop_wait", !.task = w]]
                        /\ lastQ' = NoOp
                   ELSE StopEnd(q, ws, AwaitOutcome(ws[w]))
    /\ UNCHANGED <<loop_time, qticks, pq, process_task, results, nadds, accepted>>
    /\ UNCHANGED <<now, nticks, cacheVars, clientVars, limVars, active_requests>>

\* the awaited task has finished: stop_processing resumes (lines 122-125)
StopResume(q) ==
    /\ qcallers[q].pc = "stop_wait"
    /\ qcallers[q].task \notin AliveWorkers(workers)
    /\ StopEnd(q, workers, AwaitOutcome(workers[qcallers[q].task]))
    /\ UNCHANGED <<loop_time, qticks, pq, processing, process_task, workers,
                   results, nadds, accepted>>
    /\ UNCHANGED <<now, nticks, cacheVars, clientVars, limVars, active_requests>>

\* get_result that returns None when the timeout has elapsed
get_result_poll_no_raise(me, t) ==
    IF t - me.start_time < me.timeout
    THEN IF me.request_id \in DOMAIN results
         THEN IF results[me.request_id].status = "success"
              THEN "returned" ELSE "Exception"
         ELSE "sleep"
    ELSE "returned"

\* get_result lines 203-213 at time t: the loop test, the lookup, the sleep.
\* The result is "sleep" or how get_result ends: "returned", "Exception"
\* (the stored error is raised) or "TimeoutError".
get_result_poll(me, t) ==
    IF t - me.start_time < me.timeout
    THEN IF me.request_id \in DOMAIN results
         THEN IF results[me.request_id].status = "success"
              THEN "returned" ELSE "Exception"
         ELSE "sleep"
    ELSE "TimeoutError"

\* get_result runs on in coroutine q at the current time
GetStep(q, me) ==
    LET r == get_result_poll(me, loop_time)
    IN  IF r = "sleep"
        THEN /\ qcallers' = [qcallers EXCEPT ![q] =
                    [me EXCEPT !.pc = "get_sleep", !.wake = loop_time + 1]]
             /\ lastQ' = NoOp
        ELSE /\ qcallers' = [qcallers EXCEPT ![q] = IdleQCaller]
             /\ lastQ' = [op |-> "get_result", outcome |-> r,
                          request_id |-> me.request_id, timeout |-> me.timeout,
                          start_time |-> me.start_time, stored |-> me.stored]

\* a coroutine calls get_result(request_id, timeout)
GetResult(q, request_id, timeout) ==
    /\ qcallers[q].pc = "idle"
    /\ GetStep(q, [IdleQCaller EXCEPT !.request_id = request_id,
                                      !.timeout = timeout,
                                      !.start_time = loop_time,
                                      !.stored = request_id \in DOMAIN results])
    /\ UNCHANGED <<loop_time, qticks, pq, processing, process_task, workers,
                   results, nadds, accepted>>
    /\ UNCHANGED <<now, nticks, cacheVars, clientVars, limVars, active_requests>>

\* the sleep of get_result ends (line 211)
GetWake(q) ==
    /\ qcallers[q].pc = "get_sleep"
    /\ loop_time >= qcallers[q].wake
    /\ GetStep(q, qcallers[q])
    /\ UNCHANGED <<loop_time, qticks, pq, processing, process_task, workers,
                   results, nadds, accepted>>
    /\ UNCHANGED <<now, nticks, cacheVars, clientVars, limVars, active_requests>>

\* time passes
QTick(d) ==
    /\ qticks < MaxQTicks
    /\ qticks' = qticks + 1
    /\ loop_time' = loop_time + d
    /\ lastQ' = NoOp
    /\ UNCHANGED <<pq, processing, process_task, workers, results, qcallers,
                   nadds, accepted>>
    /\ UNCHANGED <<now, nticks, cacheVars, clientVars, limVars, active_requests>>

NextQueue ==
    \/ \E p \in Priorities : AddRequest(p)
    \/ StartProcessing
    \/ \E w \in 1..MaxWorkers : WorkerStep(w)
    \/ \E q \in QCallers : StopBegin(q)
    \/ \E q \in QCallers : StopResume(q)
    \/ \E q \in Getters, id \in GetIds, t \in GetTimeouts : GetResult(q, id, t)
    \/ \E q \in Getters : GetWake(q)
    \/ \E d \in QTickSteps : QTick(d)

SpecQueue == Init /\ [][NextQueue]_vars

\* the event loop runs every task that is ready, and time goes on
SpecQueueFair ==
    /\ SpecQueue
    /\ \A w \in 1..MaxWorkers : WF_vars(WorkerStep(w))
    /\ \A q \in QCallers : WF_vars(StopResume(q))
    /\ \A q \in Getters : WF_vars(GetWake(q))
    /\ WF_vars(\E d \in QTickSteps : QTick(d))

(***************************************************************************)
(* Executions and their readers: _process_request run for a request, the   *)
(* way the worker loop's create_task would run it, and get_result and      *)
(* get_bulk_results reading what it stored.                                *)
(***************************************************************************)
MaxExecs == 2

\* the endpoint of the request with id i; each is of another rate-limit class
ExecEndpoints == <<"getwarehouses", "updateproduct", "getlocations">>

\* what the service answers to the POST of an execution
ExecOutcomes ==
    {[kind |-> "json", value |-> OkValue("d1"), status |-> 200],
     [kind |-> "json", value |-> ErrValue(OtherMsg), status |-> 200],
     [kind |-> "http", value |-> OkValue("none"), status |-> 500]}

\* the request_ids lists get_bulk_results is called with
BulkLists == {<< >>, <<1>>, <<1, 2>>, <<2, 2>>}
\* the positions in those lists
BulkIndexes == UNION {DOMAIN ids : ids \in BulkLists}
\* the coroutines that call get_bulk_results
Bulkers == {"q2"}

\* f"Timeout waiting for result of {request_id}"
TimeoutText == "Timeout waiting for result"

\* _process_request(request) up to `await client.call_endpoint(...)`
\* (lines 156-162): `from ..server import get_client` finds get_client
_process_request(W, t, request) ==
    ToolCall([W EXCEPT !.me.request_id = request.id], t,
             request.endpoint, request.params)

\* _process_request starts for a new request, with no callback
ExecStart(c) ==
    LET request == [id |-> ncalls + 1, endpoint |-> ExecEndpoints[ncalls + 1],
                    params |-> ParamsA, callback |-> None]
    IN  /\ callers[c].pc \in {"idle", "returned", "raised"}
        /\ ncalls < MaxExecs
        /\ ncalls' = ncalls + 1
        /\ Commit(c, _process_request(
                        [World(c) EXCEPT
                            !.me = [IdleCaller EXCEPT !.pc = "running",
                                                      !.tool = "_process_request",
                                                      !.authed = auth]],
                        now, request))

\* a get_result coroutine that gather has wrapped in a task
NewTask(request_id, timeout) ==
    [request_id |-> request_id, timeout |-> timeout, pc |-> "created",
     start_time |-> 0, wake |-> 0, outcome |-> "", value |-> OkValue("none"),
     text |-> "",
     \* history: a result was stored for request_id when the task first ran
     stored |-> FALSE]

\* a get_result task runs on at time t (lines 203-213)
TaskPoll(task, t) ==
    LET r == get_result_poll(task, t)
    IN  IF r = "sleep" THEN [task EXCEPT !.pc = "get_sleep", !.wake = t + 1]
        ELSE [task EXCEPT
                !.pc = "done", !.outcome = r,
                !.value = IF r = "returned" THEN results[task.request_id].result
                          ELSE @,
                !.text = IF r = "Exception" THEN results[task.request_id].error
                         ELSE IF r = "TimeoutError" THEN TimeoutText
                         ELSE @]

\* asyncio.gather(*tasks, return_exceptions=True) when every task is done: the
\* value or the exception of each, in the order of the tasks
gather(tasks) ==
    [raised |-> FALSE,
     results |-> [i \in DOMAIN tasks |->
                     [exception |-> tasks[i].outcome # "returned",
                      value |-> tasks[i].value, text |-> tasks[i].text]]]

\* get_bulk_results lines 234-246: the dict built from zip(request_ids,
\* gathered_results); an exception of the await is logged and the dict
\* returned as it is
get_bulk_results(request_ids, tasks) ==
    LET g == gather(tasks)
    IN  IF g.raised THEN EmptyMap
        ELSE [id \in {request_ids[i] : i \in DOMAIN request_ids} |->
                 LET i == CHOOSE i \in DOMAIN request_ids :
                              /\ request_ids[i] = id
                              /\ \A j \in DOMAIN request_ids :
                                    request_ids[j] = id => j <= i
                 IN  IF g.results[i].exception THEN ToolError(g.results[i].text)
                     ELSE g.results[i].value]

\* get_bulk_results returns value in coroutine q
BulkReturn(q, request_ids, timeout, value) ==
    /\ qcallers' = [qcallers EXCEPT ![q] = IdleQCaller]
    /\ lastQ' = [op |-> "get_bulk_results", outcome |-> "returned",
                 request_ids |-> request_ids, timeout |-> timeout,
                 value |-> value,
                 stored |-> {qcallers[q].tasks[i].request_id :
                                i \in {j \in DOMAIN qcallers[q].tasks :
                                          qcallers[q].tasks[j].stored}}]

\* a coroutine calls get_bulk_results(request_ids, timeout): lines 226-235,
\* up to the await of the gather (which is done at once for no tasks)
BulkBegin(q, request_ids, timeout) ==
    /\ qcallers[q].pc = "idle"
    /\ IF request_ids = << >>
       THEN BulkReturn(q, request_ids, timeout, get_bulk_results(request_ids, << >>))
       ELSE /\ qcallers' = [qcallers EXCEPT ![q] =
                   [IdleQCaller EXCEPT
                      !.pc = "bulk_wait", !.timeout = timeout,
                      !.request_ids = request_ids,
                      !.tasks = [i \in DOMAIN request_ids |->
                                    NewTask(request_ids[i], timeout)]]]
            /\ lastQ' = NoOp
    /\ UNCHANGED <<loop_time, qticks, pq, processing, process_task, workers,
                   results, nadds, accepted>>
    /\ UNCHANGED <<now, nticks, cacheVars, clientVars, limVars, active_requests>>

\* task i of the gather runs: its first step, or the end of its sleep
BulkTaskStep(q, i) ==
    /\ qcallers[q].pc = "bulk_wait"
    /\ i \in DOMAIN qcallers[q].tasks
    /\ LET task == qcallers[q].tasks[i]
       IN  /\ \/ task.pc = "created"
              \/ task.pc = "get_sleep" /\ loop_time >= task.wake
           /\ qcallers' = [qcallers EXCEPT ![q].tasks[i] =
                  TaskPoll(IF task.pc = "created"
                           THEN [task EXCEPT
                                   !.start_time = loop_time,
                                   !.stored = task.request_id \in DOMAIN results]
                           ELSE task, loop_time)]
    /\ lastQ' = NoOp
    /\ UNCHANGED <<loop_time, qticks, pq, processing, process_task, workers,
                   results, nadds, accepted>>
    /\ UNCHANGED <<now, nticks, cacheVars, clientVars, limVars, active_requests>>

\* every task of the gather is done: get_bulk_results resumes and returns
BulkEnd(q) ==
    /\ qcallers[q].pc = "bulk_wait"
    /\ \A i \in DOMAIN qcallers[q].tasks : qcallers[q].tasks[i].pc = "done"
    /\ BulkReturn(q, qcallers[q].request_ids, qcallers[q].timeout,
                  get_bulk_results(qcallers[q].request_ids, qcallers[q].tasks))
    /\ UNCHANGED <<loop_time, qticks, pq, processing, process_task, workers,
                   results, nadds, accepted>>
    /\ UNCHANGED <<now, nticks, cacheVars, clientVars, limVars, active_requests>>

\* executions one after the other, and get_result
NextExec ==
    \/ ExecStart("c1")
    \/ \E o \in ExecOutcomes : NetRespond("c1", o)
    \/ Authenticate
    \/ \E q \in Getters, id \in GetIds, t \in GetTimeouts : GetResult(q, id, t)
    \/ \E q \in Getters : GetWake(q)
    \/ \E d \in QTickSteps : QTick(d)

SpecExec == Init /\ [][NextExec]_vars

\* executions one after the other, and get_bulk_results
NextBulk ==
    \/ ExecStart("c1")
    \/ \E o \in ExecOutcomes : NetRespond("c1", o)
    \/ Authenticate
    \/ \E q \in Bulkers, ids \in BulkLists, t \in GetTimeouts : BulkBegin(q, ids, t)
    \/ \E q \in Bulkers, i \in BulkIndexes : BulkTaskStep(q, i)
    \/ \E q \in Bulkers : BulkEnd(q)
    \/ \E d \in QTickSteps : QTick(d)

SpecBulk == Init /\ [][NextBulk]_vars

(***************************************************************************)
(* Properties of the cache                                                 *)
(***************************************************************************)
\* the endpoint a cache key was computed from
EndpointOfKey(k) == (CHOOSE r \in MD5Table : r.hex = k).endpoint

\* the policy table: cache TTL in seconds per endpoint name
PolicyTtl(endpoint) ==
    CASE endpoint = "getwarehouses" -> 3600
      [] endpoint = "getproduct" -> 300
      [] endpoint = "getproducts" -> 60
      [] endpoint = "getinventorybylocation" -> 30
      [] OTHER -> 300

LastKey == _get_cache_key(lastOp.endpoint, lastOp.params)

\* C6: a set without a ttl stores the entry with the TTL the policy table gives
\* for the endpoint name (getproducts: 60 s).
C6_TtlFollowsPolicyTable ==
    (lastOp.op = "set" /\ lastOp.ttl = None /\ ~IsErrorValue(lastOp.value))
        => cache[LastKey].expiry = now + PolicyTtl(lastOp.endpoint)

\* pattern is contained in the character sequence s, ignoring case
MatchesIgnoringCase(pattern, s) ==
    \E i \in 0..(Len(s) - Len(Chars(pattern))) :
        \A j \in 1..Len(Chars(pattern)) :
            LowerChar(s[i + j]) = LowerChar(Chars(pattern)[j])

\* C7: after invalidate(pattern) no cached response is left for an endpoint
\* whose name contains the pattern (invalidate matches entries by endpoint name).
C7_InvalidateByEndpointName ==
    (lastOp.op = "invalidate" /\ lastOp.pattern # None)
        => \A k \in DOMAIN cache :
              ~MatchesIgnoringCase(lastOp.pattern[1], Chars(EndpointOfKey(k)))

\* C8: invalidate(pattern) removes exactly the entries whose cache key contains
\* the pattern case-insensitively, leaves the others unchanged and returns the
\* number removed; repeated at once with the same pattern it returns 0;
\* invalidate() removes every entry and returns the previous entry count.
C8_InvalidateExact ==
    lastOp.op = "invalidate" =>
        LET b == lastOp.before
            hit == IF lastOp.pattern = None THEN DOMAIN b
                   ELSE {k \in DOMAIN b : MatchesIgnoringCase(lastOp.pattern[1], k)}
        IN  /\ DOMAIN cache = (DOMAIN b) \ hit
            /\ \A k \in DOMAIN cache : cache[k] = b[k]
            /\ lastOp.ret = Cardinality(hit)
            /\ lastOp.repeated => lastOp.ret = 0

\* a pattern matched one of two cached entries: one removed, one kept
C8_Witness ==
    /\ lastOp.op = "invalidate"
    /\ lastOp.pattern = Some("DEF")
    /\ lastOp.ret = 1
    /\ Cardinality(DOMAIN lastOp.before) = 2
    /\ Cardinality(DOMAIN cache) = 1

\* C9: after a set of a non-error value v at t0 with resolved TTL T, and no
\* invalidate or set for the key since, get returns v at every time before
\* t0 + T and absent from t0 + T on.
C9_SetThenGet ==
    (lastOp.op = "get" /\ LastKey \in DOMAIN shadow) =>
        LET s == shadow[LastKey]
        IN  IF now < s.t0 + s.T THEN lastOp.ret = Some(s.value)
            ELSE lastOp.ret = None

\* inventory class, set at t=0: the get at t=31 returns absent
C9_Witness ==
    /\ lastOp.op = "get"
    /\ lastOp.endpoint = "getinventorybylocation"
    /\ LastKey \in DOMAIN shadow
    /\ shadow[LastKey].t0 = 0
    /\ shadow[LastKey].T = 30
    /\ now = 31
    /\ lastOp.ret = None

\* inventory class, set at t=0: the get at t=29 returns the value
C9_WitnessHit ==
    /\ lastOp.op = "get"
    /\ lastOp.endpoint = "getinventorybylocation"
    /\ LastKey \in DOMAIN shadow
    /\ shadow[LastKey].t0 = 0
    /\ now = 29
    /\ lastOp.ret = Some(shadow[LastKey].value)

\* C10: no cache entry holds an error value; a set of an error value leaves the
\* cache unchanged, and a get for that key right after it misses when no value
\* was cached for the key.
C10_NoErrorCached ==
    /\ \A k \in DOMAIN cache : ~IsErrorValue(cache[k].value)
    /\ (lastOp.op = "set" /\ IsErrorValue(lastOp.value)) => lastOp.unchanged
    /\ (lastOp.op = "get" /\ lastOp.afterErrorSet) => lastOp.ret = None

\* a get right after the set of an error value for the same key missed
C10_Witness ==
    /\ lastOp.op = "get"
    /\ lastOp.afterErrorSet
    /\ lastOp.ret = None

\* the non-credential parameters of a lookup, as a mapping
NonCredential(items) ==
    LET its == {items[i] : i \in DOMAIN items}
        keys == {it[1] : it \in its} \ CredentialFields
    IN  [k \in keys |-> (CHOOSE it \in its : it[1] = k)[2]]

\* C30: two lookups get the same cache key exactly when they have the same
\* endpoint name and the same non-credential parameters, whatever the order of
\* their parameters and whatever TenantToken / UserToken they carry.
C30_KeyIgnoresCredentialsAndOrder ==
    lastOp.op = "key"
        => ((lastOp.a.key = lastOp.b.key)
               <=> (/\ lastOp.a.endpoint = lastOp.b.endpoint
                    /\ NonCredential(lastOp.a.items) = NonCredential(lastOp.b.items)))

\* same key for lookups that differ in parameter order and in TenantToken
C30_Witness ==
    /\ lastOp.op = "key"
    /\ lastOp.a.key = lastOp.b.key
    /\ lastOp.a.items = << <<"ProductSKU", "A">>, <<"TenantToken", "t1">>,
                           <<"PageNumber", "1">>, <<"UserToken", "u1">> >>
    /\ lastOp.b.items = << <<"TenantToken", "t2">>, <<"PageNumber", "1">>,
                           <<"UserToken", "u1">>, <<"ProductSKU", "A">> >>

\* different keys for endpoint names that differ in case only
C30_WitnessEndpoint ==
    /\ lastOp.op = "key"
    /\ lastOp.a.key # lastOp.b.key
    /\ lastOp.a.endpoint = "getproduct"
    /\ lastOp.b.endpoint = "GetProduct"
    /\ lastOp.a.items = lastOp.b.items

(***************************************************************************)
(* Properties of call_endpoint and the rate limiter                        *)
(***************************************************************************)
Ended(c) == callers[c].pc \in {"returned", "raised"}

\* C1: for every interleaving of callers, two consecutive returns of
\* wait_if_needed for one rate-limit key are at least 60/callsPerMinute
\* seconds apart (callsPerMinute: the limit the returning caller computed its
\* wait from).
C1_SpacingAnyInterleaving ==
    gap.prev # None => (gap.at - gap.prev[1]) * gap.seen >= 60

\* C2: with one caller calling sequentially, the return of wait_if_needed for a
\* key is at least 60/callsPerMinute seconds after the previous return for it.
C2_SpacingSequential ==
    (gap.key # "" /\ gap.prev # None) => gap.at >= gap.prev[1] + (60 \div gap.cpm)

\* warehouses, 1 call per minute: calls requested at t=0 and t=10, the second
\* one is dispatched at t=60
C2_Witness ==
    /\ gap.key = "getwarehouses"
    /\ gap.cpm = 1
    /\ gap.prev = Some(0)
    /\ gap.at = 60
    /\ callers["c1"].pc = "network"
    /\ callers["c1"].current_time = 10

\* a return of wait_if_needed that followed a waited-out backoff
C2_WitnessBackoff == gap.prev # None /\ gap.backoff

\* C3: a cache hit is returned without calling wait_if_needed and without a
\* network call (the cache is consulted before the rate-limit gate).
C3_CacheBeforeGate ==
    \A c \in Callers :
        (callers[c].pc = "returned" /\ callers[c].hit)
            => (callers[c].gate = 0 /\ callers[c].net = 0)

\* C4: an invocation never ends on an attempt that signalled a rate limit (HTTP
\* status 429 or an error string in the body) before max_retries attempts.
C4_RateLimitSignalRetried ==
    \A c \in Callers :
        (Ended(c) /\ callers[c].signal # "none") => callers[c].net = max_retries

\* the part of C4 about an error string in the body
C4_BodySignalRetried ==
    \A c \in Callers :
        (Ended(c) /\ callers[c].signal = "body") => callers[c].net = max_retries

MutatingEndpoints ==
    {"createproduct", "updateproduct", "setitemquantity", "additem", "removeitem"}

\* C5: no response of a mutating endpoint is in the cache, and every ended
\* invocation of a mutating endpoint with credentials held made a network call.
C5_MutatingNeverCached ==
    /\ \A k \in DOMAIN cache : EndpointOfKey(k) \notin MutatingEndpoints
    /\ \A c \in Callers :
          (Ended(c) /\ callers[c].authed /\ callers[c].endpoint \in MutatingEndpoints)
              => callers[c].net >= 1

\* the part of C5 about invocations that returned
C5_MutatingReachesService ==
    \A c \in Callers :
        (callers[c].pc = "returned" /\ callers[c].authed
            /\ callers[c].endpoint \in MutatingEndpoints)
            => callers[c].net >= 1

\* the tool calls that ask for a mutating operation
MutatingInput(i) ==
    \/ i.tool \in {"create_product", "batch_update_products"}
    \/ i.tool = "call_api_endpoint"
          /\ StrLower(i.kw.endpoint_name) \in MutatingEndpoints

\* the keyword arguments to call the tool with again, confirmed
Confirmed(kw) ==
    [k \in (DOMAIN kw) \cup {"confirm"} |-> IF k = "confirm" THEN TRUE ELSE kw[k]]

\* the step is tool call i by c, not confirmed, and leaves the service, the
\* cache and the rate limiter alone
Withheld(c, i) ==
    /\ callers'[c].pc = "returned"
    /\ callers'[c].net = 0
    /\ callers'[c].gate = 0
    /\ cache' = cache
    /\ limiter' = limiter

\* the result of the step is the confirmation-required dict for tool call i
DescriptorFor(c, i) ==
    LET d == callers'[c].result[1].data
    IN  /\ ~IsErrorValue(callers'[c].result[1])
        /\ d.confirmation_required
        /\ d.action = i.tool
        /\ d.parameters = Confirmed(i.kw)
        /\ d.message.lines # << >>

\* a tool call that asked for a mutating operation has reached the rate
\* limiter, the cache or the service
Dispatched(c) ==
    /\ callers[c].tool # ""
    /\ \/ callers[c].tool \in {"create_product", "batch_update_products"}
       \/ StrLower(callers[c].endpoint) \in MutatingEndpoints
    /\ callers[c].gate + callers[c].net > 0

\* C27 as stated: every mutating tool call without confirm=true dispatches
\* nothing, leaves the cache and the rate limiter unchanged and returns the
\* confirmation-required dict with the tool's name and the same arguments with
\* confirm=true; only a call with confirm=true is dispatched.
C27_UnconfirmedReturnsDescriptor ==
    /\ [][\A c \in Callers, i \in ToolInputs :
            (/\ ncalls' = ncalls + 1
             /\ callers'[c].tool = i.tool
             /\ MutatingInput(i)
             /\ ~ConfirmOf(i.kw)
             /\ ToolStart(c, i.tool, i.kw))
                => (Withheld(c, i) /\ DescriptorFor(c, i))]_vars
    /\ [](\A c \in Callers : Dispatched(c) => callers[c].confirm)

\* batch_update_products rejects the update list before it looks at confirm
BatchRejected(i) ==
    /\ i.tool = "batch_update_products"
    /\ \/ Len(i.kw.updates) = 0
       \/ Len(i.kw.updates) > max_items
       \/ \E n \in 1..Len(i.kw.updates) :
             \/ "Sku" \notin DOMAIN i.kw.updates[n]
             \/ validate_sku(i.kw.updates[n].Sku) # None

\* C27, amended: as stated, except that batch_update_products validates its
\* update list first and returns an error dict, not the confirmation-required
\* dict, for a list that is empty, too long or has an item without a valid Sku.
C27_UnconfirmedWithheld ==
    /\ [][\A c \in Callers, i \in ToolInputs :
            (/\ ncalls' = ncalls + 1
             /\ callers'[c].tool = i.tool
             /\ MutatingInput(i)
             /\ ~ConfirmOf(i.kw)
             /\ ToolStart(c, i.tool, i.kw))
                => /\ Withheld(c, i)
                   /\ IF BatchRejected(i)
                      THEN IsErrorValue(callers'[c].result[1])
                      ELSE DescriptorFor(c, i)]_vars
    /\ [](\A c \in Callers : Dispatched(c) => callers[c].confirm)

\* "UpdateProduct" was asked for through call_api_endpoint without confirm
\* while the cache and the rate limiter held state of an earlier call
C27_Witness ==
    /\ callers["c1"].tool = "call_api_endpoint"
    /\ callers["c1"].pc = "returned"
    /\ ~callers["c1"].confirm
    /\ callers["c1"].gate = 0
    /\ ~IsErrorValue(callers["c1"].result[1])
    /\ callers["c1"].result[1].data.parameters
          = [endpoint_name |-> "UpdateProduct", confirm |-> TRUE, ProductSKU |-> "A"]
    /\ cache # EmptyMap
    /\ limiter.last_call_times # EmptyMap

\* a confirmed mutating call reached the service
C27_WitnessDispatched ==
    /\ Dispatched("c1")
    /\ callers["c1"].confirm
    /\ callers["c1"].net > 0

\* C23: while no credentials are held, call_endpoint for a registered endpoint
\* has failed with "Authentication required" by its first suspension point: it
\* sleeps for no rate limit or backoff, posts nothing and returns no response.
C23_NoCredentialsFailsImmediately ==
    \A c \in Callers :
        (/\ ~auth
         /\ ~callers[c].direct
         /\ callers[c].pc # "idle"
         /\ StrLower(callers[c].endpoint) \in Registry)
            => /\ callers[c].pc = "raised"
               /\ callers[c].exc = "AuthenticationRequired"
               /\ callers[c].net = 0

\* C36: a call_endpoint invocation rejected before any network call (no
\* credentials held, or endpoint not in the registry) leaves the rate limiter
\* and the cache as they were.
C36_RejectedCallChangesNothing ==
    [][\A c \in Callers :
          (/\ callers'[c] # callers[c]
           /\ callers'[c].pc = "raised"
           /\ callers'[c].exc \in {"AuthenticationRequired", "UnknownEndpoint"}
           /\ callers'[c].net = 0)
              => /\ limiter' = limiter
                 /\ cache' = cache]_vars

\* C35: the value the cache holds for a key is changed only by set, expiry or
\* invalidate: it is the response call_endpoint got from the service, and a
\* step in which no response arrives leaves the value of every key as it was,
\* whatever a tool handler does with the response it was given.
C35_CachedValueOnlyChangedByCache ==
    /\ [](\A k \in DOMAIN cache :
             cache[k].value \in {o.value : o \in ProductOutcomes})
    /\ [][\A c \in Callers :
             callers[c].pc # "network" =>
                 \A k \in (DOMAIN cache) \cap (DOMAIN cache') :
                     cache'[k].value = cache[k].value]_vars

\* C24: a network attempt that fails without a rate-limit signal (HTTP status
\* other than 429, transport failure, malformed body) ends the invocation in
\* that step with SkuVaultAPIError: no further attempt, and the rate limiter
\* (backoff, retry counts, limits, last call times) and the cache are unchanged.
C24_OtherErrorSurfacedOnce ==
    [][\A c \in Callers :
          (/\ callers[c].pc = "network"
           /\ callers'[c].exc = "SkuVaultAPIError"
           /\ callers'[c].signal = "none")
              => /\ callers'[c].pc = "raised"
                 /\ callers'[c].net = callers[c].net
                 /\ limiter' = limiter
                 /\ cache' = cache]_vars

\* a second attempt (after a retried rate-limit signal) failed that way: the
\* backoff and the retry count the first attempt set are still there
C24_Witness ==
    /\ callers["c1"].pc = "raised"
    /\ callers["c1"].exc = "SkuVaultAPIError"
    /\ callers["c1"].signal = "none"
    /\ callers["c1"].net = 2
    /\ limiter.retry_counts # EmptyMap

\* the suspension points of one pass of the wrapper's loop, in the order the
\* code reaches them, counted down over the passes that are left
Rank(me) ==
    4 * (max_retries - 1 - me.retry_count)
      + (CASE me.pc = "backoff_sleep" -> 4
           [] me.pc = "rate_sleep" -> 3
           [] me.pc = "network" -> 2
           [] me.pc = "retry_sleep" -> 1
           [] OTHER -> 0)

Suspended(c) ==
    callers[c].pc \in {"backoff_sleep", "rate_sleep", "network", "retry_sleep"}

\* C25: an invocation of call_endpoint posts at most max_retries (3) times and
\* terminates: it has a rank that is never negative and that every one of its
\* steps lowers unless the step ends it, and each of its sleeps is finite (at
\* most the 300 s cap or the advertised interval). A third attempt that is
\* rate-limited too ends the invocation with the result of that attempt.
C25_BoundedAttemptsAndTermination ==
    /\ [](\A c \in Callers :
            /\ callers[c].net <= max_retries
            /\ Suspended(c) => /\ Rank(callers[c]) > 0
                               /\ callers[c].retry_count < max_retries
                               /\ callers[c].pc # "network"
                                    => callers[c].wake - now <= 300)
    /\ [][\A c \in Callers :
            /\ (Suspended(c) /\ callers'[c] # callers[c])
                  => \/ Ended(c)'
                     \/ Suspended(c)' /\ Rank(callers'[c]) < Rank(callers[c])
            /\ \A o \in NetOutcomes :
                 (/\ NetRespond(c, o)
                  /\ callers[c].net = max_retries
                  /\ o.kind = "json"
                  /\ IsRateLimitResult(o.value))
                     => /\ callers'[c].pc = "returned"
                        /\ callers'[c].result = Some(o.value)]_vars

\* the third attempt of an invocation was rate-limited and its result returned
C25_Witness ==
    /\ callers["c1"].pc = "returned"
    /\ callers["c1"].net = max_retries
    /\ callers["c1"].signal = "body"
    /\ callers["c1"].result = Some(ErrValue(LimitMsg))

(***************************************************************************)
(* Properties of the RateLimiter methods                                   *)
(***************************************************************************)
\* C11: with no server-supplied retry time, the waits handle_rate_limit_error
\* returns for one rate key with no reset in between never decrease and never
\* exceed 300 seconds, and the first call after a reset of the key returns 2.
C11_BackoffMonotoneCapped ==
    (lastLim.op = "handle" /\ lastLim.retry_after = None) =>
        /\ lastLim.wait_time <= 300
        /\ (lastLim.prev # None => lastLim.wait_time >= lastLim.prev[1])
        /\ (lastLim.fresh => lastLim.wait_time = 2)

\* the cap is reached: 2^9 is cut to 300 after a wait of 256
C11_Witness ==
    /\ lastLim.op = "handle" /\ lastLim.retry_after = None
    /\ lastLim.wait_time = 300 /\ lastLim.prev = Some(256)

\* a reset after several errors brings the wait back to 2
C11_WitnessReset ==
    /\ lastLim.op = "handle" /\ lastLim.retry_after = None
    /\ lastLim.fresh /\ lastLim.wait_time = 2
    /\ "inventory" \in DOMAIN limiter.backoff_until

\* C12: call_endpoint deletes the retry count of a rate key only when the
\* attempt it has just completed carried no rate-limit signal.
C12_ResetOnlyWithoutSignal ==
    [][\A k \in DOMAIN limiter.retry_counts :
          k \notin DOMAIN limiter'.retry_counts =>
              \E c \in Callers :
                  /\ callers[c].pc # "returned"
                  /\ callers'[c].pc = "returned"
                  /\ ~IsRateLimitResult(callers'[c].result[1])]_vars

\* C12, second half: after a result without a rate-limit signal was returned
\* the retry count of the endpoint's rate key is zero (absent)
C12_ZeroAfterSuccess ==
    \A c \in {"c1"} :
        (callers[c].pc = "returned" /\ ~IsRateLimitResult(callers[c].result[1]))
            => get_rate_limit_key(limiter, callers[c].endpoint)
                   \notin DOMAIN limiter.retry_counts

\* C13: no sequence or interleaving of wait_if_needed, handle_rate_limit_error,
\* reset_retry_count and update_rate_limit_from_error makes one of them raise.
C13_LimiterNeverRaises ==
    \A c \in Callers : callers[c].direct => callers[c].pc # "raised"

\* C14: get_rate_limit_key maps an endpoint name to the same rate key in every
\* reachable state, whatever RateLimiter methods ran before.
C14_ClassificationStable ==
    \A e \in CallEndpoints :
        get_rate_limit_key(limiter, e) = get_rate_limit_key(NewLimiter, e)

\* C28: update_rate_limit_from_error with a message that advertises N calls
\* per minute sets rate_limits[endpoint.lower()] to N and changes no other
\* entry of rate_limits and none of last_call_times, retry_counts and
\* backoff_until; with a message that advertises no limit it changes nothing.
C28_UpdateOnlyThatEndpoint ==
    [][(nlim' = nlim + 1 /\ lastLim'.op = "update")
          => LET e == StrLower(lastLim'.endpoint)
                 m == lastLim'.message
             IN  IF m.limit = None THEN limiter' = limiter
                 ELSE /\ e \in DOMAIN limiter'.rate_limits
                      /\ limiter'.rate_limits[e] = m.limit[1]
                      /\ DOMAIN limiter'.rate_limits = DOMAIN limiter.rate_limits \cup {e}
                      /\ \A k \in DOMAIN limiter.rate_limits \ {e} :
                            limiter'.rate_limits[k] = limiter.rate_limits[k]
                      /\ limiter'.last_call_times = limiter.last_call_times
                      /\ limiter'.retry_counts = limiter.retry_counts
                      /\ limiter'.backoff_until = limiter.backoff_until]_vars

\* the limit advertised for "GetProduct" is stored under "getproduct", with a
\* retry count and a backoff present that the update left alone
C28_Witness ==
    /\ lastLim.op = "update"
    /\ lastLim.endpoint = "GetProduct"
    /\ lastLim.message.limit = Some(1)
    /\ limiter.rate_limits["getproduct"] = 1
    /\ "GetProduct" \notin DOMAIN limiter.rate_limits
    /\ limiter.retry_counts # EmptyMap
    /\ limiter.backoff_until # EmptyMap

\* C29: handle_rate_limit_error raises the retry count of the endpoint's rate
\* key by one, returns retry_after whenever one was supplied and
\* min(2 ^ retry count, 300) otherwise, and sets backoff_until of that key, and
\* of no other, to now + the wait returned.
C29_HandleReturnsSuppliedWait ==
    [][(nlim' = nlim + 1 /\ lastLim'.op = "handle")
          => LET k == lastLim'.key
                 old == IF k \in DOMAIN limiter.retry_counts
                        THEN limiter.retry_counts[k] ELSE 0
                 wait_time == lastLim'.wait_time
             IN  /\ limiter'.retry_counts = Put(limiter.retry_counts, k, old + 1)
                 /\ wait_time = IF lastLim'.retry_after # None
                                THEN lastLim'.retry_after[1]
                                ELSE Min(2 ^ (old + 1), 300)
                 /\ limiter'.backoff_until = Put(limiter.backoff_until, k, now + wait_time)]_vars

\* C26: wait_if_needed never returns for a rate key while a backoff set by
\* handle_rate_limit_error for that key is still ahead, also when the caller
\* was already suspended in wait_if_needed when the backoff was set.
C26_NoReturnDuringBackoff ==
    (gap # NoGap /\ gap.key \in DOMAIN limiter.backoff_until)
        => limiter.backoff_until[gap.key] <= gap.at

\* C32: callers that wait out one backoff window of a rate key concurrently
\* inside wait_if_needed all return normally: the wake-up of a caller from its
\* backoff sleep never ends wait_if_needed with KeyError.
C32_ConcurrentBackoffWakersReturn ==
    [][\A c \in Callers :
          (callers[c].pc = "backoff_sleep" /\ callers'[c].pc # "backoff_sleep")
              => ~(callers'[c].pc = "raised" /\ callers'[c].exc = "KeyError")]_vars

\* C33: backoff_until of a rate key is deleted only once it lies in the past:
\* the wake-up of a caller that slept out an earlier backoff does not delete a
\* later backoff_until that handle_rate_limit_error set in the meantime.
C33_BackoffClearedOnlyWhenPast ==
    [][\A k \in DOMAIN limiter.backoff_until :
          k \notin DOMAIN limiter'.backoff_until
              => limiter.backoff_until[k] <= now]_vars

\* C34: every calls-per-minute value in rate_limits is an integer >= 1 in
\* every reachable state, so 60 / calls_per_minute in wait_if_needed is
\* defined; an advertised limit of 0 is never adopted.
C34_LimitsAtLeastOne ==
    \A k \in DOMAIN limiter.rate_limits : limiter.rate_limits[k] >= 1

(***************************************************************************)
(* Properties of the RequestQueue                                          *)
(***************************************************************************)
\* the request ids in the priority queue
Queued == {pq[i].id : i \in DOMAIN pq}

\* the accepted requests the worker has taken from the queue
Dequeued == accepted \ Queued

\* the queued tuple of request id
ItemOf(heap, id) == CHOOSE x \in {heap[i] : i \in DOMAIN heap} : x.id = id

\* C16: a request the worker takes from the queue has the highest priority of
\* the queued requests and the earliest created_at among those; and of two
\* queued requests of priorities 1 and 9, the 1 submitted first, the 9 is
\* dispatched, and before the 1.
C16_HighestPriorityFirst ==
    /\ [][\A id \in Dequeued' \ Dequeued :
             \A other \in Queued \ {id} :
                 TupleLt(ItemOf(pq, id), ItemOf(pq, other))]_vars
    /\ \A lo, hi \in 1..MaxAdds :
          (/\ lo < hi /\ {lo, hi} \subseteq Queued
           /\ ItemOf(pq, lo).neg = 0 - 1 /\ ItemOf(pq, hi).neg = 0 - 9
           /\ processing)
          ~> (hi \in Dequeued \/ ~processing)

\* C17: while the queue is processing, every request add_request accepted
\* eventually has a result stored under its id.
C17_AcceptedEventuallyResolved ==
    \A id \in 1..MaxAdds :
        (id \in accepted /\ processing) ~> (id \in DOMAIN results \/ ~processing)

\* C18: get_result for an id with no stored result ends only with
\* TimeoutError, not before the timeout has elapsed, and never starts a sleep
\* once it has elapsed.
C18_TimeoutNotHang ==
    /\ (lastQ.op = "get_result" /\ lastQ.request_id \notin DOMAIN results) =>
           /\ lastQ.outcome = "TimeoutError"
           /\ loop_time - lastQ.start_time >= lastQ.timeout
    /\ \A q \in Getters :
           qcallers[q].pc = "get_sleep" =>
               qcallers[q].wake <= qcallers[q].start_time + qcallers[q].timeout

\* an accepted request of a processing queue is waited for 0.2 s and more
C18_Witness ==
    /\ lastQ.op = "get_result" /\ lastQ.outcome = "TimeoutError"
    /\ lastQ.timeout = 2 /\ loop_time > lastQ.start_time + lastQ.timeout
    /\ lastQ.request_id \in accepted /\ processing

\* C19: when stop_processing returns, no worker-loop task of the queue is alive.
C19_StopLeavesNoWorker ==
    (lastQ.op = "stop_processing" /\ lastQ.outcome = "returned") =>
        lastQ.alive = {}


\* C38: at most one worker-loop task of the queue is alive at any time, and
\* processing is true exactly when one is alive.
C38_OneWorkerFlagExact ==
    /\ Cardinality(AliveWorkers(workers)) <= 1
    /\ processing <=> AliveWorkers(workers) # {}

\* C40: add_request returns a fresh id for every input, also when a request of
\* the same priority and created_at is queued, and leaves the queue a heap that
\* holds every request accepted so far.
C40_TieNeverFailsEnqueue ==
    lastQ.op = "add_request" =>
        /\ lastQ.outcome = "returned"
        /\ lastQ.id \notin (accepted \ {lastQ.id})
        /\ accepted \subseteq Queued
        /\ \A i \in 2..Len(pq) : ~TupleLt(pq[i], pq[i \div 2])


\* C37: every id add_request has returned is, in every later state, in the
\* priority queue, in flight in an execution or has a stored result.  No
\* worker task gets as far as taking a request (WorkerStep), so no execution
\* is ever in flight: an accepted request is queued or has a result.
C37_AcceptedNeverLost ==
    \A id \in accepted : id \in Queued \/ id \in DOMAIN results

\* two accepted requests are still queued after the first worker task has
\* ended, stop_processing has ended and a second worker task was created
C37_Witness ==
    /\ accepted = {1, 2}
    /\ accepted \subseteq Queued
    /\ Len(workers) = 2
    /\ workers[1] \in {"failed", "cancelled"}
    /\ \A q \in QCallers : qcallers[q].pc = "idle"


\* C39: a get_result call that finds a result stored for its request id ends
\* by returning the payload (status success) or raising the stored error
\* (status error), for every timeout, 0 included; and get_result raises
\* TimeoutError only when no result is stored for the id.
C39_StoredResultBeatsTimeout ==
    lastQ.op = "get_result" =>
        /\ lastQ.stored =>
              lastQ.outcome = IF results[lastQ.request_id].status = "success"
                              THEN "returned" ELSE "Exception"
        /\ lastQ.outcome = "TimeoutError" => lastQ.request_id \notin DOMAIN results

\* the value get_bulk_results gives for a request whose get_result timed out
TimedOut == ToolError(TimeoutText)

\* what get_bulk_results gives for a request with a stored result
EntryOf(id) ==
    IF results[id].status = "success" THEN results[id].result
    ELSE ToolError(results[id].error)

\* get_bulk_results returns a dict with one entry for each requested id and no
\* other; an entry is the request's payload, its error as an error dict, or
\* the error dict of a wait that timed out
C31_EntryPerRequestedId ==
    lastQ.op = "get_bulk_results" =>
        /\ lastQ.outcome = "returned"
        /\ DOMAIN lastQ.value = {lastQ.request_ids[i] : i \in DOMAIN lastQ.request_ids}
        /\ \A id \in DOMAIN lastQ.value :
              IF id \in DOMAIN results THEN lastQ.value[id] \in {EntryOf(id), TimedOut}
              ELSE lastQ.value[id] = TimedOut

\* C31: get_bulk_results does not raise, and the dict it returns has one
\* entry for each requested id: the payload of a request that succeeded, an
\* error dict for one that failed or timed out; a request whose result was
\* stored when the wait for it began has not timed out.
C31_BulkResultsTotal ==
    /\ C31_EntryPerRequestedId
    /\ lastQ.op = "get_bulk_results" =>
          \A id \in lastQ.stored : lastQ.value[id] = EntryOf(id)

====
